---- MODULE Spec2Model ----
(***************************************************************************)
(* z4term: the pane-layout tree of a terminal window (tabs, each a binary  *)
(* tree of split panes), its session codec and its key dispatch, modelled  *)
(* from src/z4term.py.                                                     *)
(*                                                                         *)
(* The widget tree is a heap: a function from widget ids to records.  The  *)
(* kind of a widget is the range its id lies in (TerminalPane 1..99,       *)
(* Gtk.Paned 101..199, the Gtk.Box of a notebook page 201..299).  A widget *)
(* that is no longer inside the window is dropped from the heap; a stale   *)
(* Python reference to it (focused_terminal, an idle closure) keeps its id *)
(* and reads get_parent() = None.                                          *)
(*                                                                         *)
(* Every handler of the program is a pure operator from a window state S   *)
(* (a record of the variables below) to the state it leaves; the actions   *)
(* apply these operators to the current state.                             *)
(***************************************************************************)
EXTENDS Integers, Sequences, FiniteSets, TLC

VARIABLES
    win,                \* "init" before do_activate, "open", "destroyed"
    sessionFile,        \* SESSION_FILE on disk
    widgets,            \* the widgets inside the window
    pages,              \* notebook pages (Gtk.Box ids), in tab order
    cur,                \* notebook.get_current_page(), -1 with no page
    focused_terminal,   \* TerminalWindow.focused_terminal
    _closing,           \* TerminalWindow._closing
    config,             \* TerminalWindow.config["keybindings"]
    _keymap,            \* TerminalWindow._keymap
    gtkFocus,           \* the GtkWindow's focus widget
    active,             \* the window has the toplevel (keyboard) focus
    idle,               \* GLib idle callbacks not run yet, in order
    fileReads           \* startups that have read the file now on disk

vars == <<win, sessionFile, widgets, pages, cur, focused_terminal, _closing,
          config, _keymap, gtkFocus, active, idle, fileReads>>

(* ------------------------------ bounds -------------------------------- *)

\* Most terminals alive in the window (guards split_pane and add_tab).
MaxTerms == 3
\* Most Gtk.Paned alive in the window (guards split_pane).
MaxPaneds == 2
\* Most notebook pages (guards add_tab).
MaxTabs == 2
\* Most idle callbacks pending when an input event is taken.
MaxIdle == 2
\* Reads of one session file that are counted.
MaxReads == 2
\* Most consecutive splits a deep tree is built with.
DeepSplits == 22
\* Deepest chain of "paned" nodes in a session document.
ChainDepth == 26

(* --------------------------- program constants ------------------------ *)

None == 0

\* _restore_tree: "depth > 20"
MaxDepth == 20

IsTerminalPane(x) == x \in 1..99
IsPaned(x) == x \in 101..199
IsBox(x) == x \in 201..299

HORIZONTAL == "HORIZONTAL"
VERTICAL == "VERTICAL"

\* os.environ.get("HOME", "/")
HOME == "home"
\* None where a directory name is expected (None and "" are both falsy).
NoCwd == ""

\* A widget just constructed: no parent, no children, position not set; of
\* a terminal, the directory its shell is in and whether _child_pid is set.
NewWidget(orientation) ==
    [parent |-> None, child1 |-> None, child2 |-> None,
     orientation |-> orientation, position |-> 0,
     cwd |-> NoCwd, _child_pid |-> FALSE]

(* ----------------------------- widget tree ---------------------------- *)

\* get_parent that still reports a container for a widget that has left it.
get_parent_stale(S, x) ==
    IF x \in DOMAIN S.widgets THEN S.widgets[x].parent
    ELSE IF Len(S.pages) > 0 THEN S.pages[1] ELSE 0

\* widget.get_parent(): None for a widget that is not in a container.
get_parent(S, x) ==
    IF x \in DOMAIN S.widgets THEN S.widgets[x].parent ELSE None

RECURSIVE Subtree(_, _)
\* The widget x and everything packed below it.
Subtree(W, x) ==
    IF x = None \/ x \notin DOMAIN W THEN {}
    ELSE {x} \cup Subtree(W, W[x].child1) \cup Subtree(W, W[x].child2)

RECURSIVE _collect_terminals_rev(_, _)
\* A traversal that takes child2 before child1.
_collect_terminals_rev(W, widget) ==
    IF IsTerminalPane(widget) THEN <<widget>>
    ELSE IF IsPaned(widget) THEN
        (IF W[widget].child2 # None
            THEN _collect_terminals_rev(W, W[widget].child2) ELSE <<>>)
        \o (IF W[widget].child1 # None
            THEN _collect_terminals_rev(W, W[widget].child1) ELSE <<>>)
    ELSE IF IsBox(widget) THEN
        (IF W[widget].child1 # None
            THEN _collect_terminals_rev(W, W[widget].child1) ELSE <<>>)
    ELSE <<>>

RECURSIVE _collect_terminals(_, _)
\* Pre-order, child1 before child2; a Box holds its one child in child1.
_collect_terminals(W, widget) ==
    IF IsTerminalPane(widget) THEN <<widget>>
    ELSE IF IsPaned(widget) THEN
        (IF W[widget].child1 # None
            THEN _collect_terminals(W, W[widget].child1) ELSE <<>>)
        \o (IF W[widget].child2 # None
            THEN _collect_terminals(W, W[widget].child2) ELSE <<>>)
    ELSE IF IsBox(widget) THEN
        (IF W[widget].child1 # None
            THEN _collect_terminals(W, W[widget].child1) ELSE <<>>)
    ELSE <<>>

\* Python references to widgets held outside the widget tree.
Referenced(S) ==
    {S.focused_terminal, S.gtkFocus}
        \cup {S.idle[i].widget : i \in DOMAIN S.idle}

RECURSIVE FirstFree(_, _)
FirstFree(used, n) == IF n \notin used THEN n ELSE FirstFree(used, n + 1)

\* A new object is distinct from every object still alive.
FreshTerm(S) == FirstFree(DOMAIN S.widgets \cup Referenced(S), 1)
FreshPaned(S) == FirstFree(DOMAIN S.widgets \cup Referenced(S), 101)
FreshBox(S) == FirstFree(DOMAIN S.widgets \cup Referenced(S), 201)

\* Constructing a widget (TerminalPane(self, cwd), Gtk.Paned(orientation),
\* Gtk.Box()): it exists, outside any container.
Construct(S, x, orientation) ==
    [S EXCEPT !.widgets = @ @@ (x :> NewWidget(orientation))]

\* TerminalPane.__init__: the shell is spawned in cwd, or in HOME without
\* one; _child_pid is set when the spawn has completed.
NewTerminalPane(S, x, cwd) ==
    [Construct(S, x, "-") EXCEPT
        !.widgets[x].cwd = IF cwd # NoCwd THEN cwd ELSE HOME]

\* TerminalPane.get_cwd: the directory of the child process, None before
\* the child's pid is known.
get_cwd(W, t) == IF W[t]._child_pid THEN W[t].cwd ELSE NoCwd

\* Gtk.Container.remove: the child leaves its slot and has no parent; GTK
\* unsets the window's focus widget when it was inside the removed child.
remove(S, container, child) ==
    LET W == S.widgets
        W1 == [W EXCEPT ![container].child1 = IF @ = child THEN None ELSE @,
                        ![container].child2 = IF @ = child THEN None ELSE @,
                        ![child].parent = None]
    IN [S EXCEPT !.widgets = W1,
                 !.gtkFocus = IF @ \in Subtree(W, child) THEN None ELSE @]

\* pack2 that loses the child.
pack2_dropped(S, paned, child) == S

\* pack1 that loses the child.
pack1_dropped(S, paned, child) == S

\* pack1 that fills the second slot first.
pack1_second(S, paned, child) ==
    IF S.widgets[paned].child2 = None
    THEN [S EXCEPT !.widgets[paned].child2 = child,
                   !.widgets[child].parent = paned]
    ELSE [S EXCEPT !.widgets[paned].child1 = child,
                   !.widgets[child].parent = paned]

\* A Paned that is put in the second slot when it takes the place of a first
\* child.
pack1_other(S, paned, child) ==
    IF S.widgets[paned].child1 # None THEN S
    ELSE [S EXCEPT !.widgets[paned].child1 = S.widgets[paned].child2,
                   !.widgets[paned].child2 = child,
                   !.widgets[child].parent = paned]

\* Gtk.Paned.pack1 / pack2: fill the slot when it is empty.
pack1(S, paned, child) ==
    IF S.widgets[paned].child1 # None THEN S
    ELSE [S EXCEPT !.widgets[paned].child1 = child,
                   !.widgets[child].parent = paned]

pack2(S, paned, child) ==
    IF S.widgets[paned].child2 # None THEN S
    ELSE [S EXCEPT !.widgets[paned].child2 = child,
                   !.widgets[child].parent = paned]

\* Gtk.Box.pack_start on the Box of a page, which holds one child.
pack_start(S, box, child) ==
    [S EXCEPT !.widgets[box].child1 = child,
              !.widgets[child].parent = box]

\* Widgets that are in no notebook page are outside the window: they are
\* destroyed with their container or stay behind parentless.
Settle(S) ==
    LET keep == UNION {Subtree(S.widgets, S.pages[i]) : i \in DOMAIN S.pages}
    IN [S EXCEPT !.widgets = [x \in keep |-> S.widgets[x]],
                 !.gtkFocus = IF @ \in keep THEN @ ELSE None]

(* -------------------------------- focus ------------------------------- *)

\* TerminalPane._on_focus (focus-in-event)
_on_focus(S, self) == [S EXCEPT !.focused_terminal = self]

\* Gtk.Widget.grab_focus: the widget becomes the window's focus widget; the
\* focus-in-event is emitted at once when the window has the toplevel
\* focus, otherwise when the window next gains it.  A widget outside the
\* window cannot take the focus.
grab_focus(S, t) ==
    IF t \notin DOMAIN S.widgets \/ S.gtkFocus = t THEN S
    ELSE IF S.active THEN _on_focus([S EXCEPT !.gtkFocus = t], t)
    ELSE [S EXCEPT !.gtkFocus = t]

\* An idle_add that puts the callback ahead of those pending.
idle_add_front(S, fn, widget, position) ==
    [S EXCEPT !.idle = <<[fn |-> fn, widget |-> widget,
                          position |-> position]>> \o @]

\* GLib.idle_add
idle_add(S, fn, widget, position) ==
    [S EXCEPT !.idle = Append(@, [fn |-> fn, widget |-> widget,
                                  position |-> position])]

(* ------------------------------ notebook ------------------------------ *)

get_n_pages(S) == Len(S.pages)

\* notebook.page_num(box): -1 when the box is not a page.
page_num(S, box) ==
    IF \E i \in DOMAIN S.pages : S.pages[i] = box
    THEN (CHOOSE i \in DOMAIN S.pages : S.pages[i] = box) - 1
    ELSE -1

_current_tab_root(S) == IF S.cur >= 0 THEN S.pages[S.cur + 1] ELSE None

\* TerminalWindow._on_switch_page ("switch-page")
_on_switch_page(S, page) ==
    LET terminals == _collect_terminals(S.widgets, page)
    IN IF terminals # <<>>
       THEN idle_add(S, "grab_focus", terminals[1], 0)
       ELSE S

\* notebook.set_current_page: emits switch-page when the page changes.
set_current_page(S, idx) ==
    IF idx = S.cur \/ idx < 0 \/ idx >= Len(S.pages) THEN S
    ELSE [_on_switch_page(S, S.pages[idx + 1]) EXCEPT !.cur = idx]

\* notebook.append_page: the first page of a notebook becomes current.
append_page(S, box) ==
    LET S1 == [S EXCEPT !.pages = Append(@, box)]
    IN IF Len(S.pages) = 0 THEN set_current_page(S1, 0) ELSE S1

\* notebook.remove_page: -1 removes the last page; removing the current
\* page switches to the next page, or to the previous one when it was last.
remove_page(S, page_idx) ==
    LET n == Len(S.pages)
        i == IF page_idx < 0 THEN n - 1 ELSE page_idx
        box == S.pages[i + 1]
        rest == [j \in 1..(n - 1) |->
                    IF j <= i THEN S.pages[j] ELSE S.pages[j + 1]]
        next == IF i + 1 < n THEN S.pages[i + 2]
                ELSE IF i > 0 THEN S.pages[i] ELSE None
        S1 == IF i = S.cur /\ next # None
              THEN _on_switch_page(S, next) ELSE S
        newcur == IF i = S.cur
                  THEN (IF i + 1 < n THEN i ELSE i - 1)
                  ELSE IF i < S.cur THEN S.cur - 1 ELSE S.cur
    IN Settle([S1 EXCEPT !.pages = rest, !.cur = newcur])

\* Gtk.Window.destroy: every widget of the window is destroyed and the
\* application, left without a window, stops its main loop.
destroy(S) ==
    [S EXCEPT !.win = "destroyed", !.widgets = <<>>, !.pages = <<>>,
              !.cur = -1, !.gtkFocus = None, !.active = FALSE,
              !.idle = <<>>]

(* -------------------------------- tabs -------------------------------- *)

\* add_tab that adds nothing.
add_tab_none(S) == S

\* TerminalWindow.add_tab
add_tab(S) ==
    LET term == FreshTerm(S)
        box == FreshBox(S)
        idx == Len(S.pages)
    IN grab_focus(
         set_current_page(
           append_page(
             pack_start(Construct(NewTerminalPane(S, term, NoCwd), box, "-"),
                        box, term),
             box),
           idx),
         term)

\* TerminalWindow._focus_any
_focus_any(S) ==
    LET root == _current_tab_root(S)
    IN IF root = None THEN S
       ELSE LET ts == _collect_terminals(S.widgets, root)
            IN IF ts # <<>> THEN grab_focus(S, ts[1]) ELSE S

\* A _switch_tab that stops at the first and at the last tab.
_switch_tab_clamped(S, direction) ==
    LET n == get_n_pages(S)
        Clamp(i) == IF i < 0 THEN 0 ELSE IF i > n - 1 THEN n - 1 ELSE i
    IN IF n <= 1 THEN S
       ELSE set_current_page(S, Clamp(S.cur + direction))

\* TerminalWindow._switch_tab
_switch_tab(S, direction) ==
    LET n == get_n_pages(S)
    IN IF n <= 1 THEN S
       ELSE set_current_page(S, (S.cur + direction) % n)

\* TerminalWindow._on_tab_label_click with event.button == 2
_on_tab_label_click(S, tab_box) ==
    IF get_n_pages(S) <= 1
    THEN destroy([S EXCEPT !._closing = TRUE])
    ELSE _focus_any(remove_page(S, page_num(S, tab_box)))

(* -------------------------------- split ------------------------------- *)

\* A split_pane that puts the new terminal in the first slot of the new
\* Paned and the split terminal in the second.
split_pane_before(S, orientation) ==
    LET term == S.focused_terminal
        parent == get_parent(S, term)
        paned == FreshPaned(S)
        new_term == FreshTerm(S)
        is_child1 == S.widgets[parent].child1 = term
        Place(S2) == IF IsBox(parent) THEN pack_start(S2, parent, paned)
                     ELSE IF is_child1 THEN pack1(S2, parent, paned)
                     ELSE pack2(S2, parent, paned)
    IN IF term = None \/ parent = None THEN S
       ELSE grab_focus(
              idle_add(
                Place(pack2(pack1(remove(NewTerminalPane(
                                           Construct(S, paned, orientation),
                                           new_term,
                                           get_cwd(S.widgets, term)),
                                         parent, term),
                                  paned, new_term),
                            paned, term)),
                "_set_half", paned, 0),
              new_term)

\* TerminalWindow.split_pane
split_pane(S, orientation) ==
    LET term == S.focused_terminal
        parent == get_parent(S, term)
        paned == FreshPaned(S)
        new_term == FreshTerm(S)
        is_child1 == S.widgets[parent].child1 = term
        \* the new Paned takes the place of term in parent
        Place(S2) == IF IsBox(parent) THEN pack_start(S2, parent, paned)
                     ELSE IF is_child1 THEN pack1(S2, parent, paned)
                     ELSE pack2(S2, parent, paned)
    IN IF term = None \/ parent = None THEN S
       ELSE grab_focus(
              idle_add(
                Place(pack2(pack1(remove(NewTerminalPane(
                                           Construct(S, paned, orientation),
                                           new_term,
                                           get_cwd(S.widgets, term)),
                                         parent, term),
                                  paned, term),
                            paned, new_term)),
                "_set_half", paned, 0),
              new_term)

\* A _set_half whose Paned is gone and that sets the divider of another one.
_set_half_any(S, paned, alloc) ==
    LET others == {x \in DOMAIN S.widgets : IsPaned(x)}
        target == IF paned \in DOMAIN S.widgets THEN paned
                  ELSE IF others # {} THEN CHOOSE x \in others : TRUE
                  ELSE None
    IN IF target = None THEN S
       ELSE [S EXCEPT !.widgets[target].position =
                           IF alloc > 1 THEN alloc \div 2 ELSE 400]

\* split_pane._set_half, run from the idle queue: alloc is the allocated
\* width or height of the Paned at that time.
_set_half(S, paned, alloc) ==
    IF paned \notin DOMAIN S.widgets THEN S
    ELSE [S EXCEPT !.widgets[paned].position =
                        IF alloc > 1 THEN alloc \div 2 ELSE 400]

\* set_position that has no effect.
set_position_lost(S, paned, p) == S

\* Gtk.Paned.set_position
set_position(S, paned, p) ==
    IF paned \notin DOMAIN S.widgets THEN S
    ELSE [S EXCEPT !.widgets[paned].position = p]

(* -------------------------------- close ------------------------------- *)

\* A close that takes the Leaf out of its Split and promotes nothing.
close_in_paned_keep(S, term, parent) == remove(S, parent, term)

\* close_pane, the branch "isinstance(parent, Gtk.Paned)".  With no sibling
\* (a Paned restored with one child) parent.remove(None) raises TypeError
\* after the terminal has been removed.
close_in_paned(S, term, parent) ==
    LET is_child1 == S.widgets[parent].child1 = term
        sibling == IF is_child1 THEN S.widgets[parent].child2
                   ELSE S.widgets[parent].child1
        \* the sibling takes the place of parent in grandparent
        Place(S2, grandparent, is_gp1) ==
            IF IsBox(grandparent)
            THEN pack_start(remove(S2, grandparent, parent),
                            grandparent, sibling)
            ELSE IF IsPaned(grandparent)
            THEN (IF is_gp1
                  THEN pack1(remove(S2, grandparent, parent),
                             grandparent, sibling)
                  ELSE pack2(remove(S2, grandparent, parent),
                             grandparent, sibling))
            ELSE S2
        Promote(S2) ==
            Place(S2, get_parent(S2, parent),
                  S2.widgets[get_parent(S2, parent)].child1 = parent)
        Focus(S3, terminals) ==
            IF terminals # <<>> THEN grab_focus(S3, terminals[1]) ELSE S3
        FocusFirst(S3) == Focus(S3, _collect_terminals(S3.widgets, sibling))
    IN IF sibling = None THEN remove(S, parent, term)
       ELSE FocusFirst(Promote(remove(remove(S, parent, term),
                                      parent, sibling)))

\* A close_pane without the test of _closing.
close_pane_unguarded(S, target) ==
    LET term == IF target # None THEN target ELSE S.focused_terminal
        parent == get_parent(S, term)
    IN IF term = None \/ parent = None THEN S
       ELSE IF IsBox(parent) THEN
            IF get_n_pages(S) <= 1
            THEN destroy([S EXCEPT !._closing = TRUE])
            ELSE _focus_any(remove_page(S, page_num(S, parent)))
       ELSE IF IsPaned(parent) THEN Settle(close_in_paned(S, term, parent))
       ELSE S

\* TerminalWindow.close_pane
close_pane(S, target) ==
    LET term == IF target # None THEN target ELSE S.focused_terminal
        parent == get_parent(S, term)
    IN IF S._closing \/ term = None \/ parent = None THEN S
       ELSE IF IsBox(parent) THEN
            IF get_n_pages(S) <= 1
            THEN destroy([S EXCEPT !._closing = TRUE])
            ELSE _focus_any(remove_page(S, page_num(S, parent)))
       ELSE IF IsPaned(parent) THEN Settle(close_in_paned(S, term, parent))
       ELSE S

\* TerminalPane._on_exit ("child-exited")
_on_exit(S, self) == close_pane(S, self)

(* ------------------------------ navigate ------------------------------ *)

\* list.index that always finds x first.
index_first(seq, x) == 0

\* list.index: the position of x in seq, 0-based; -1 stands for ValueError.
index(seq, x) ==
    IF \E i \in DOMAIN seq : seq[i] = x
    THEN (CHOOSE i \in DOMAIN seq : seq[i] = x /\ \A j \in 1..(i - 1) : seq[j] # x) - 1
    ELSE -1

\* TerminalWindow.navigate_next
navigate_next(S) ==
    LET root == _current_tab_root(S)
        Go(terminals, idx) ==
            IF terminals = <<>> THEN S
            ELSE grab_focus(S, terminals[
                    (IF idx >= 0 THEN (idx + 1) % Len(terminals) ELSE 0) + 1])
        Find(terminals) == Go(terminals, index(terminals, S.focused_terminal))
    IN IF root = None THEN S
       ELSE Find(_collect_terminals(S.widgets, root))

(* ---------------------------- session codec --------------------------- *)

\* JSON values of a session document.  A pane document is a record with a
\* "type"; JSON null is JNull, a value that is not an object is JScalar.
\* "position" is <<p>> for the integer p and <<>> for null or missing.
JNull == [type |-> "null"]
JScalar == [type |-> "scalar"]
JTerminal == [type |-> "terminal"]
JPaned(orientation, position, child1, child2) ==
    [type |-> "paned", orientation |-> orientation, position |-> position,
     child1 |-> child1, child2 |-> child2]

\* SESSION_FILE: absent, not JSON, a JSON value that is not an object, or
\* a JSON object.  header_ok is FALSE when window_width, window_height or
\* "tabs" has a type the code cannot use.
NoFile == [kind |-> "absent"]
GarbageFile == [kind |-> "garbage"]
NonDictFile == [kind |-> "nondict"]
DictFile(header_ok, tabs) ==
    [kind |-> "dict", header_ok |-> header_ok, tabs |-> tabs]

RECURSIVE _serialize_tree(_, _)
\* TerminalWindow._serialize_tree
_serialize_tree(W, widget) ==
    IF IsTerminalPane(widget)
        THEN [type |-> "terminal",
              cwd |-> IF get_cwd(W, widget) # NoCwd
                      THEN get_cwd(W, widget) ELSE HOME]
    ELSE IF IsPaned(widget) THEN
        LET orient == IF W[widget].orientation = HORIZONTAL
                      THEN "horizontal" ELSE "vertical"
            c1 == W[widget].child1
            c2 == W[widget].child2
        IN JPaned(orient, <<W[widget].position>>,
                  IF c1 # None THEN _serialize_tree(W, c1) ELSE JNull,
                  IF c2 # None THEN _serialize_tree(W, c2) ELSE JNull)
    ELSE IF IsBox(widget) /\ W[widget].child1 # None
        THEN _serialize_tree(W, W[widget].child1)
    ELSE JNull

RECURSIVE SerializePages(_, _)
\* save_session: the loop over the pages, keeping the trees that are not None.
SerializePages(S, i) ==
    IF i > Len(S.pages) THEN <<>>
    ELSE LET tree == _serialize_tree(S.widgets, S.pages[i])
         IN (IF tree # JNull THEN <<tree>> ELSE <<>>)
            \o SerializePages(S, i + 1)

\* TerminalWindow.save_session: the document written to SESSION_FILE.
save_session(S) == DictFile(TRUE, SerializePages(S, 1))

RECURSIVE _restore_tree(_, _, _)
\* TerminalWindow._restore_tree: the state left, the widget returned, and
\* whether an exception was raised (data.get on a value that is no object).
_restore_tree(S, data, depth) ==
    IF data.type = "null" \/ depth > MaxDepth
        THEN [S |-> S, widget |-> None, raised |-> FALSE]
    ELSE IF data.type = "scalar"
        THEN [S |-> S, widget |-> None, raised |-> TRUE]
    ELSE IF data.type = "terminal"
        THEN [S |-> NewTerminalPane(S, FreshTerm(S),
                                    IF "cwd" \in DOMAIN data
                                    THEN data.cwd ELSE NoCwd),
              widget |-> FreshTerm(S), raised |-> FALSE]
    ELSE IF data.type = "paned" THEN
        LET orient == IF data.orientation = "horizontal"
                      THEN HORIZONTAL ELSE VERTICAL
            paned == FreshPaned(S)
            Pack1(S1, c1) == IF c1 # None THEN pack1(S1, paned, c1) ELSE S1
            Pack2(S1, c2) == IF c2 # None THEN pack2(S1, paned, c2) ELSE S1
            Position(S1) == IF data.position # <<>>
                            THEN idle_add(S1, "set_position", paned,
                                          data.position[1])
                            ELSE S1
            Join(r1, r2) ==
                IF r2.raised THEN r2
                ELSE [S |-> Position(Pack2(Pack1(r2.S, r1.widget), r2.widget)),
                      widget |-> paned, raised |-> FALSE]
            Second(r1) ==
                IF r1.raised THEN r1
                ELSE Join(r1, _restore_tree(r1.S, data.child2, depth + 1))
        IN Second(_restore_tree(Construct(S, paned, orient),
                                data.child1, depth + 1))
    ELSE [S |-> S, widget |-> None, raised |-> FALSE]

\* TerminalWindow._restore_tab
_restore_tab(S, tab_data) ==
    LET Page(S1, widget, box) ==
            set_current_page(
              append_page(pack_start(Construct(S1, box, "-"), box, widget),
                          box),
              Len(S1.pages))
        Tab(r) ==
            IF r.raised \/ r.widget = None
            THEN [S |-> r.S, raised |-> r.raised]
            ELSE [S |-> Page(r.S, r.widget, FreshBox(r.S)), raised |-> FALSE]
    IN Tab(_restore_tree(S, tab_data, 0))

RECURSIVE RestoreTabs(_, _, _)
\* restore_or_init: "for tab_data in session_data['tabs']" inside the try;
\* an exception ends the loop and is swallowed.
RestoreTabs(S, tabs, i) ==
    LET Rest(r) == IF r.raised THEN r.S ELSE RestoreTabs(r.S, tabs, i + 1)
    IN IF i > Len(tabs) THEN S ELSE Rest(_restore_tab(S, tabs[i]))

\* restore_or_init: "if session_data and session_data.get('tabs'): try: ...
\* except Exception: pass"; session_data is a DictFile or NoFile (None).  A
\* header the code cannot use raises before the first tab.
RestoreSession(S, session_data) ==
    IF session_data.kind = "dict" /\ session_data.tabs # <<>>
    THEN (IF session_data.header_ok
          THEN RestoreTabs(S, session_data.tabs, 1) ELSE S)
    ELSE S

\* TerminalWindow.restore_or_init
restore_or_init(S, session_data) ==
    LET Default(S1) == IF get_n_pages(S1) = 0 THEN add_tab(S1) ELSE S1
        Show(S2) == Settle([S2 EXCEPT !.win = "open"])
    IN Show(Default(RestoreSession(S, session_data)))

\* Z4TermApp.do_activate: what it passes to restore_or_init ...
LoadSession(file) == IF file.kind = "dict" THEN file ELSE NoFile

\* ... and what it leaves on disk: the file is removed once it has parsed.
AfterLoad(file) ==
    IF file.kind \in {"dict", "nondict"} THEN NoFile ELSE file

\* Z4TermApp.do_activate on the window just constructed.  A JSON value that
\* is not an object makes restore_or_init raise ("session_data.get").
do_activate(S, file) ==
    IF file.kind = "nondict" THEN [S EXCEPT !.win = "failed"]
    ELSE restore_or_init(S, LoadSession(file))

\* TerminalWindow._on_delete, then GTK's default handler: the window is
\* destroyed.
_on_delete(S) == destroy(S)

(* ------------------------------- keymap ------------------------------- *)

\* Gdk.ModifierType bits; a modifier mask is the set of its bits.
CONTROL_MASK == "CONTROL_MASK"
SHIFT_MASK == "SHIFT_MASK"
MOD1_MASK == "MOD1_MASK"
SUPER_MASK == "SUPER_MASK"
LOCK_MASK == "LOCK_MASK"

\* Gdk key symbols (gdkkeysyms.h).
KEY_VoidSymbol == 16777215
KEY_Tab == 65289
KEY_Page_Up == 65365
KEY_Page_Down == 65366
KEY_c == 99
KEY_C == 67
KEY_v == 118
KEY_V == 86

\* Gdk.keyval_from_name over the names the model's bindings use: a letter or
\* a digit is its own name (case-sensitive), other keys have fixed names.
KeyNames ==
    << <<"a", 97>>, <<"c", 99>>, <<"d", 100>>, <<"e", 101>>, <<"f", 102>>,
       <<"n", 110>>, <<"t", 116>>, <<"v", 118>>, <<"w", 119>>,
       <<"A", 65>>, <<"C", 67>>, <<"D", 68>>, <<"E", 69>>, <<"F", 70>>,
       <<"N", 78>>, <<"T", 84>>, <<"V", 86>>, <<"W", 87>>,
       <<"0", 48>>, <<"plus", 43>>, <<"minus", 45>>,
       <<"Tab", KEY_Tab>>, <<"Page_Up", KEY_Page_Up>>,
       <<"Page_Down", KEY_Page_Down>> >>

keyval_from_name(name) ==
    IF \E i \in DOMAIN KeyNames : KeyNames[i][1] = name
    THEN KeyNames[CHOOSE i \in DOMAIN KeyNames : KeyNames[i][1] = name][2]
    ELSE KEY_VoidSymbol

\* keyval_to_lower that leaves the key as it is.
keyval_to_lower_same(kv) == kv

\* Gdk.keyval_to_lower / keyval_to_upper on the Latin letters.
keyval_to_lower(kv) == IF kv \in 65..90 THEN kv + 32 ELSE kv
keyval_to_upper(kv) == IF kv \in 97..122 THEN kv - 32 ELSE kv

\* Python str.strip, str.lower, str.upper and str.capitalize on the tokens
\* the model's bindings use: <<token, strip, lower, upper, capitalize>>.
Tokens ==
    << <<"Ctrl", "Ctrl", "ctrl", "CTRL", "Ctrl">>,
       <<"ctrl", "ctrl", "ctrl", "CTRL", "Ctrl">>,
       <<"CTRL", "CTRL", "ctrl", "CTRL", "Ctrl">>,
       <<"Shift", "Shift", "shift", "SHIFT", "Shift">>,
       <<"shift", "shift", "shift", "SHIFT", "Shift">>,
       <<"Alt", "Alt", "alt", "ALT", "Alt">>,
       <<"Super", "Super", "super", "SUPER", "Super">>,
       <<" Shift ", "Shift", "shift", "SHIFT", "Shift">>,
       <<"A", "A", "a", "A", "A">>,
       <<"a", "a", "a", "A", "A">>,
       <<"C", "C", "c", "C", "C">>,
       <<"c", "c", "c", "C", "C">>,
       <<"D", "D", "d", "D", "D">>,
       <<"d", "d", "d", "D", "D">>,
       <<" d", "d", "d", "D", "D">>,
       <<"E", "E", "e", "E", "E">>,
       <<"F", "F", "f", "F", "F">>,
       <<"N", "N", "n", "N", "N">>,
       <<"T", "T", "t", "T", "T">>,
       <<"V", "V", "v", "V", "V">>,
       <<"W", "W", "w", "W", "W">>,
       <<"0", "0", "0", "0", "0">>,
       <<"plus", "plus", "plus", "PLUS", "Plus">>,
       <<"minus", "minus", "minus", "MINUS", "Minus">>,
       <<"Tab", "Tab", "tab", "TAB", "Tab">>,
       <<"tab", "tab", "tab", "TAB", "Tab">>,
       <<"TAB", "TAB", "tab", "TAB", "Tab">>,
       <<"Page_Down", "Page_Down", "page_down", "PAGE_DOWN", "Page_down">>,
       <<"Page_Up", "Page_Up", "page_up", "PAGE_UP", "Page_up">>,
       <<"page_down", "page_down", "page_down", "PAGE_DOWN", "Page_down">>,
       <<"Foo", "Foo", "foo", "FOO", "Foo">>,
       <<"", "", "", "", "">> >>

TokenRow(p) == Tokens[CHOOSE i \in DOMAIN Tokens : Tokens[i][1] = p]
strip(p) == TokenRow(p)[2]
lower(p) == TokenRow(p)[3]
upper(p) == TokenRow(p)[4]
capitalize(p) == TokenRow(p)[5]

\* _parse_binding: "for name in (p, p.lower(), p.upper(), p.capitalize())":
\* the first name that is a key, or None.
ResolveKey(p) ==
    LET ok(kv) == kv # 0 /\ kv # KEY_VoidSymbol
        First(kvs) ==
            IF \E i \in 1..4 : ok(kvs[i])
            THEN kvs[CHOOSE i \in 1..4 :
                        ok(kvs[i]) /\ \A j \in 1..(i - 1) : ~ok(kvs[j])]
            ELSE None
    IN First(<<keyval_from_name(p), keyval_from_name(lower(p)),
               keyval_from_name(upper(p)), keyval_from_name(capitalize(p))>>)

RECURSIVE ParseParts(_, _, _, _)
\* _parse_binding: the loop over text.split("+"); parts is that list.
ParseParts(parts, i, mods, keyval) ==
    IF i > Len(parts) THEN <<keyval, mods>>
    ELSE
        LET Key(kv) == IF kv # None THEN kv ELSE keyval
            Part(p, low) ==
               IF low = "ctrl"
                   THEN ParseParts(parts, i + 1, mods \cup {CONTROL_MASK}, keyval)
               ELSE IF low = "shift"
                   THEN ParseParts(parts, i + 1, mods \cup {SHIFT_MASK}, keyval)
               ELSE IF low = "alt"
                   THEN ParseParts(parts, i + 1, mods \cup {MOD1_MASK}, keyval)
               ELSE IF low = "super"
                   THEN ParseParts(parts, i + 1, mods \cup {SUPER_MASK}, keyval)
               ELSE ParseParts(parts, i + 1, mods, Key(ResolveKey(p)))
        IN Part(strip(parts[i]), lower(strip(parts[i])))

\* _parse_binding; a binding string is given as the list of its parts
\* between "+" signs.
_parse_binding(text) ==
    LET Result(r) == IF r[1] # None THEN r ELSE <<None, {}>>
    IN Result(ParseParts(text, 1, {}, None))

\* km[key] = action on a Python dict.
DictSet(km, key, action) ==
    [k \in DOMAIN km \cup {key} |-> IF k = key THEN action ELSE km[k]]

\* A registration that does not look at what the binding parsed to.
Register_always(km, action, binding_str) ==
    DictSet(km, _parse_binding(binding_str), action)

\* A registration of the key as parsed only, without its other letter case.
Register_exact(km, action, binding_str) ==
    IF _parse_binding(binding_str)[1] = None THEN km
    ELSE DictSet(km, _parse_binding(binding_str), action)

\* _build_keymap: what one (action, binding_str) item adds.
Register(km, action, binding_str) ==
    LET Cases(km1, lower_kv, upper_kv, mods) ==
            IF lower_kv # upper_kv
            THEN DictSet(DictSet(km1, <<lower_kv, mods>>, action),
                         <<upper_kv, mods>>, action)
            ELSE km1
        Add(kv, mods) ==
            IF kv = None THEN km
            ELSE Cases(DictSet(km, <<kv, mods>>, action),
                       keyval_to_lower(kv), keyval_to_upper(kv), mods)
        Parsed(b) == Add(b[1], b[2])
    IN Parsed(_parse_binding(binding_str))

RECURSIVE BuildFrom(_, _, _)
BuildFrom(km, bindings, i) ==
    IF i > Len(bindings) THEN km
    ELSE BuildFrom(Register(km, bindings[i][1], bindings[i][2]),
                   bindings, i + 1)

\* _build_keymap; bindings is the dict's items, in the dict's order.
_build_keymap(bindings) == BuildFrom(<<>>, bindings, 1)

\* DEFAULTS["keybindings"]
DEFAULTS ==
    << <<"split_vertical", <<"Ctrl", "Shift", "D">> >>,
       <<"split_horizontal", <<"Ctrl", "Shift", "E">> >>,
       <<"close_pane", <<"Ctrl", "Shift", "W">> >>,
       <<"new_tab", <<"Ctrl", "Shift", "T">> >>,
       <<"new_window", <<"Ctrl", "Shift", "N">> >>,
       <<"next_pane", <<"Ctrl", "Tab">> >>,
       <<"search", <<"Ctrl", "Shift", "F">> >>,
       <<"zoom_in", <<"Ctrl", "plus">> >>,
       <<"zoom_out", <<"Ctrl", "minus">> >>,
       <<"zoom_reset", <<"Ctrl", "0">> >>,
       <<"next_tab", <<"Ctrl", "Shift", "Page_Down">> >>,
       <<"prev_tab", <<"Ctrl", "Shift", "Page_Up">> >>,
       <<"copy", <<"Ctrl", "Shift", "C">> >>,
       <<"paste", <<"Ctrl", "Shift", "V">> >> >>

(* ---------------------------- key dispatch ---------------------------- *)

\* What a key handler returns: the state it leaves, its return value (TRUE:
\* the event is consumed), and the clipboard request it made of a terminal.
Handled(S, ret, effect, on) ==
    [S |-> S, ret |-> ret, effect |-> effect, on |-> on]

\* A dispatcher that knows no action.
_handle_action_none(S, action) == Handled(S, FALSE, "none", None)

\* The keys of the dispatch dict of _handle_action.
KnownActions ==
    {"split_vertical", "split_horizontal", "close_pane", "new_tab",
     "new_window", "next_pane", "search", "zoom_in", "zoom_out",
     "zoom_reset", "next_tab", "prev_tab", "copy", "paste"}

\* TerminalWindow._handle_action.  The search bar, the font size and other
\* windows are not part of the state.
_handle_action(S, action) ==
    LET t == S.focused_terminal
    IN CASE action = "split_vertical" ->
                Handled(split_pane(S, HORIZONTAL), TRUE, "none", None)
         [] action = "split_horizontal" ->
                Handled(split_pane(S, VERTICAL), TRUE, "none", None)
         [] action = "close_pane" ->
                Handled(close_pane(S, None), TRUE, "none", None)
         [] action = "new_tab" -> Handled(add_tab(S), TRUE, "none", None)
         [] action = "next_pane" ->
                Handled(navigate_next(S), TRUE, "none", None)
         [] action = "next_tab" ->
                Handled(_switch_tab(S, 1), TRUE, "none", None)
         [] action = "prev_tab" ->
                Handled(_switch_tab(S, -1), TRUE, "none", None)
         [] action = "copy" ->
                IF t # None THEN Handled(S, TRUE, "copy", t)
                ELSE Handled(S, TRUE, "none", None)
         [] action = "paste" ->
                IF t # None THEN Handled(S, TRUE, "paste", t)
                ELSE Handled(S, TRUE, "none", None)
         [] action \in {"new_window", "search", "zoom_in", "zoom_out",
                        "zoom_reset"} ->
                Handled(S, TRUE, "none", None)
         [] OTHER -> Handled(S, FALSE, "none", None)

\* A lookup that finds every key bound.
KeymapGet_any(km, key) == "new_window"

\* self._keymap.get((kv, state)); "" stands for None (both are falsy).
KeymapGet(km, key) == IF key \in DOMAIN km THEN km[key] ELSE ""

\* An _on_key that looks up the whole modifier state of the event.
_on_key_allbits(S, km, event, has_selection) ==
    LET kv == event.keyval
        action == KeymapGet(km, <<kv, event.state>>)
        ctrl == CONTROL_MASK \in event.state
        shift == SHIFT_MASK \in event.state
        t == S.focused_terminal
    IN IF action # "" THEN _handle_action(S, action)
       ELSE IF ctrl /\ ~shift /\ kv \in {KEY_c, KEY_C} THEN
            IF t # None /\ has_selection
            THEN Handled(S, TRUE, "copy", t)
            ELSE Handled(S, FALSE, "none", None)
       ELSE IF ctrl /\ ~shift /\ kv \in {KEY_v, KEY_V} /\ t # None
            THEN Handled(S, TRUE, "paste", t)
       ELSE Handled(S, FALSE, "none", None)

\* An _on_key that keeps the Super bit of the event in the mask it looks up.
_on_key_super(S, km, event, has_selection) ==
    LET kv == event.keyval
        state == event.state \cap {CONTROL_MASK, SHIFT_MASK, MOD1_MASK,
                                   SUPER_MASK}
        action == KeymapGet(km, <<kv, state>>)
        ctrl == CONTROL_MASK \in state
        shift == SHIFT_MASK \in state
        t == S.focused_terminal
    IN IF action # "" THEN _handle_action(S, action)
       ELSE IF ctrl /\ ~shift /\ kv \in {KEY_c, KEY_C} THEN
            IF t # None /\ has_selection
            THEN Handled(S, TRUE, "copy", t)
            ELSE Handled(S, FALSE, "none", None)
       ELSE IF ctrl /\ ~shift /\ kv \in {KEY_v, KEY_V} /\ t # None
            THEN Handled(S, TRUE, "paste", t)
       ELSE Handled(S, FALSE, "none", None)

\* TerminalWindow._on_key; has_selection is what get_has_selection() of the
\* focused terminal returns.
_on_key(S, km, event, has_selection) ==
    LET kv == event.keyval
        state == event.state \cap {CONTROL_MASK, SHIFT_MASK, MOD1_MASK}
        action == KeymapGet(km, <<kv, state>>)
        ctrl == CONTROL_MASK \in state
        shift == SHIFT_MASK \in state
        t == S.focused_terminal
    IN IF action # "" THEN _handle_action(S, action)
       ELSE IF ctrl /\ ~shift /\ kv \in {KEY_c, KEY_C} THEN
            IF t # None /\ has_selection
            THEN Handled(S, TRUE, "copy", t)
            ELSE Handled(S, FALSE, "none", None)
       ELSE IF ctrl /\ ~shift /\ kv \in {KEY_v, KEY_V} /\ t # None
            THEN Handled(S, TRUE, "paste", t)
       ELSE Handled(S, FALSE, "none", None)

(* ------------------------------ main loop ----------------------------- *)

\* The window as TerminalWindow.__init__ leaves it.
TerminalWindow ==
    [win |-> "init", widgets |-> <<>>, pages |-> <<>>, cur |-> -1,
     focused_terminal |-> None, _closing |-> FALSE, gtkFocus |-> None,
     active |-> FALSE, idle |-> <<>>]

\* The window gains the toplevel focus: its focus widget gets focus-in-event.
focus_in(S) ==
    IF S.gtkFocus # None
    THEN _on_focus([S EXCEPT !.active = TRUE], S.gtkFocus)
    ELSE [S EXCEPT !.active = TRUE]

\* The main loop runs the oldest idle callback; alloc is the size the Paned
\* of a _set_half has been allocated by then.
run_idle(S, alloc) ==
    LET cb == Head(S.idle)
        S1 == [S EXCEPT !.idle = Tail(@)]
    IN CASE cb.fn = "grab_focus" -> grab_focus(S1, cb.widget)
         [] cb.fn = "set_position" -> set_position(S1, cb.widget, cb.position)
         [] cb.fn = "_set_half" -> _set_half(S1, cb.widget, alloc)

RECURSIVE Drain(_, _)
\* The main loop runs every pending idle callback.
Drain(S, alloc) ==
    IF S.idle = <<>> THEN S ELSE Drain(run_idle(S, alloc), alloc)

(* ------------------------------- actions ------------------------------ *)

\* The window state the handlers work on.
St ==
    [win |-> win, widgets |-> widgets, pages |-> pages, cur |-> cur,
     focused_terminal |-> focused_terminal, _closing |-> _closing,
     gtkFocus |-> gtkFocus, active |-> active, idle |-> idle]

Apply(R) ==
    /\ win' = R.win
    /\ widgets' = R.widgets
    /\ pages' = R.pages
    /\ cur' = R.cur
    /\ focused_terminal' = R.focused_terminal
    /\ _closing' = R._closing
    /\ gtkFocus' = R.gtkFocus
    /\ active' = R.active
    /\ idle' = R.idle

\* The terminals inside the window, page by page.
RECURSIVE TermsFrom(_, _)
TermsFrom(S, i) ==
    IF i > Len(S.pages) THEN <<>>
    ELSE _collect_terminals(S.widgets, S.pages[i]) \o TermsFrom(S, i + 1)

Range(seq) == {seq[i] : i \in DOMAIN seq}
Terms(S) == Range(TermsFrom(S, 1))

Paneds(S) == {x \in DOMAIN S.widgets : IsPaned(x)}

\* The model's bounds on a state an action may lead to.
Within(S) ==
    /\ Cardinality(Terms(S)) <= MaxTerms
    /\ Cardinality(Paneds(S)) <= MaxPaneds
    /\ Len(S.pages) <= MaxTabs

\* An input event is taken with fewer than MaxIdle callbacks pending.
Ready == win = "open" /\ Len(idle) < MaxIdle

\* The session files a first start may find.
EmptyPaned == JPaned("vertical", <<>>, JNull, JNull)
StartFiles ==
    { NoFile, NonDictFile,
      DictFile(TRUE, <<>>),
      DictFile(FALSE, <<JTerminal>>),
      DictFile(TRUE, <<JTerminal>>),
      DictFile(TRUE, <<JPaned("horizontal", <<300>>, JTerminal, JTerminal)>>),
      DictFile(TRUE, <<JTerminal, JPaned("up", <<0>>, JTerminal, JTerminal)>>),
      DictFile(TRUE, <<[type |-> "bogus"]>>),
      DictFile(TRUE, <<JNull, [type |-> "bogus"]>>),
      DictFile(TRUE, <<JTerminal, JScalar, JTerminal>>),
      DictFile(TRUE, <<EmptyPaned>>),
      DictFile(TRUE, <<JPaned("vertical", <<200>>, JTerminal, EmptyPaned)>>),
      DictFile(TRUE, <<JPaned("horizontal", <<300>>,
                              [type |-> "bogus"], JTerminal), JTerminal>>) }

\* Key events the user sends: a key symbol and a modifier state.
KeyEvent(keyval, state) == [keyval |-> keyval, state |-> state]
KeyEvents ==
    { KeyEvent(k, {CONTROL_MASK, SHIFT_MASK}) :
        k \in {100, 68, 69, 87, 84, KEY_Page_Down, KEY_Page_Up, KEY_C, KEY_V} }
    \cup { KeyEvent(k, {CONTROL_MASK}) :
        k \in {KEY_Tab, KEY_c, KEY_C, KEY_v, KEY_V, 120} }
    \cup { KeyEvent(KEY_c, {}), KeyEvent(KEY_c, {CONTROL_MASK, LOCK_MASK}),
           KeyEvent(KEY_v, {CONTROL_MASK, MOD1_MASK}),
           KeyEvent(68, {CONTROL_MASK, SHIFT_MASK, SUPER_MASK}) }

\* The allocated size a Paned may report when _set_half runs (1 before it
\* has been allocated).
Allocs == {1, 800}

\* The window is in state S.
Window(S) ==
    /\ win = S.win
    /\ widgets = S.widgets
    /\ pages = S.pages
    /\ cur = S.cur
    /\ focused_terminal = S.focused_terminal
    /\ _closing = S._closing
    /\ gtkFocus = S.gtkFocus
    /\ active = S.active
    /\ idle = S.idle

\* The process starts: TerminalWindow.__init__.
InitWindow == Window(TerminalWindow)

Init ==
    /\ InitWindow
    /\ sessionFile \in StartFiles
    /\ config = DEFAULTS
    /\ _keymap = _build_keymap(config)
    /\ fileReads = 0

\* The count of the startups that have read the session file, after one
\* more has opened it: a file removed by its first reader is gone, and no
\* file is no read.
ReadBy(file, n) ==
    IF file.kind = "absent" THEN n
    ELSE IF n = 0 /\ AfterLoad(file).kind = "absent" THEN 0
    ELSE IF n < MaxReads THEN n + 1 ELSE n

\* Z4TermApp.do_activate
Activate ==
    /\ win = "init"
    /\ \E R \in {do_activate(St, sessionFile)} : Apply(R)
    /\ sessionFile' = AfterLoad(sessionFile)
    /\ fileReads' = ReadBy(sessionFile, fileReads)
    /\ UNCHANGED <<config, _keymap>>

\* "key-press-event" on the window, which has the keyboard focus.
OnKey ==
    /\ Ready /\ active
    /\ \E event \in KeyEvents, has_selection \in BOOLEAN :
        \E r \in {_on_key(St, _keymap, event, has_selection)} :
           Within(r.S) /\ Apply(r.S)
    /\ UNCHANGED <<sessionFile, config, _keymap, fileReads>>

\* "child-exited" of a terminal: one inside the window, or one that has
\* left it and is still referenced.
OnExit ==
    /\ Ready
    /\ \E t \in Terms(St) \cup ({focused_terminal} \ {None}) :
        \E R \in {_on_exit(St, t)} : Apply(R)
    /\ UNCHANGED <<sessionFile, config, _keymap, fileReads>>

\* The context menu of a terminal of the current page: "Split Side-by-Side",
\* "Split Top/Bottom" and "Close Pane".
OnMenu ==
    /\ Ready /\ active /\ cur >= 0
    /\ \E terminal \in Range(_collect_terminals(widgets, pages[cur + 1])) :
        \/ \E o \in {HORIZONTAL, VERTICAL} :
              \E R \in {split_pane(St, o)} :
                  Within(R) /\ Apply(R)
        \/ \E R \in {close_pane(St, terminal)} : Apply(R)
    /\ UNCHANGED <<sessionFile, config, _keymap, fileReads>>

\* Left click on a terminal of the current page: the terminal takes the focus.
OnClick ==
    /\ Ready /\ active /\ cur >= 0
    /\ \E terminal \in Range(_collect_terminals(widgets, pages[cur + 1])) :
        \E R \in {grab_focus(St, terminal)} : Apply(R)
    /\ UNCHANGED <<sessionFile, config, _keymap, fileReads>>

\* Middle click on a tab label; the labels show with more than one page.
OnTabLabelClick ==
    /\ Ready /\ Len(pages) > 1
    /\ \E i \in DOMAIN pages :
        \E R \in {_on_tab_label_click(St, pages[i])} : Apply(R)
    /\ UNCHANGED <<sessionFile, config, _keymap, fileReads>>

\* The main loop runs the oldest idle callback.
RunIdle ==
    /\ win = "open" /\ idle # <<>>
    /\ \E alloc \in Allocs : \E R \in {run_idle(St, alloc)} : Apply(R)
    /\ UNCHANGED <<sessionFile, config, _keymap, fileReads>>

\* The window gains the toplevel focus.
FocusIn ==
    /\ win = "open" /\ ~active
    /\ \E R \in {focus_in(St)} : Apply(R)
    /\ UNCHANGED <<sessionFile, config, _keymap, fileReads>>

\* The window loses the toplevel focus.
FocusOut ==
    /\ win = "open" /\ active
    /\ Apply([St EXCEPT !.active = FALSE])
    /\ UNCHANGED <<sessionFile, config, _keymap, fileReads>>

\* "delete-event": save_session, then the window is destroyed.  Writing the
\* file may fail (OSError, swallowed).
OnDelete ==
    /\ Ready
    /\ sessionFile' \in {save_session(St), sessionFile}
    /\ fileReads' = IF sessionFile' = sessionFile THEN fileReads ELSE 0
    /\ \E R \in {_on_delete(St)} : Apply(R)
    /\ UNCHANGED <<config, _keymap>>

\* The process has ended with its window; the program is started again.
Start ==
    /\ win = "destroyed"
    /\ Apply(TerminalWindow)
    /\ UNCHANGED <<sessionFile, config, _keymap, fileReads>>

Next ==
    \/ Start
    \/ Activate
    \/ OnKey
    \/ OnExit
    \/ OnMenu
    \/ OnClick
    \/ OnTabLabelClick
    \/ RunIdle
    \/ FocusIn
    \/ FocusOut
    \/ OnDelete

Spec == Init /\ [][Next]_vars

\* A start without a session to restore: restore_or_init creates the one
\* tab with add_tab.
FreshFiles ==
    { NoFile, DictFile(TRUE, <<>>), DictFile(FALSE, <<JTerminal>>),
      DictFile(TRUE, <<[type |-> "bogus"]>>) }

FreshInit == Init /\ sessionFile \in FreshFiles

FreshSpec == FreshInit /\ [][Next]_vars

\* The leaves of the selected tab.
CurrentLeaves(S) ==
    IF S.cur >= 0 THEN _collect_terminals(S.widgets, S.pages[S.cur + 1])
    ELSE <<>>

(* ---------------------- deep trees and documents --------------------- *)

\* The window after a first start without a session file, focused and idle.
Started == Drain(focus_in(do_activate(TerminalWindow, NoFile)), 1)

RECURSIVE Grow(_, _, _, _, _)
\* Splits i..k on the open window S, each with its _set_half run: the split
\* is of the Leaf created last (side "last") or, after a click on it, of the
\* first Leaf; orientations are taken from orients in turn.
Grow(S, i, k, side, orients) ==
    LET Target == IF side = "first"
                  THEN grab_focus(S, CurrentLeaves(S)[1]) ELSE S
    IN IF S.win = "open" /\ i <= k
       THEN Grow(Drain(split_pane(Target, orients[(i % Len(orients)) + 1]),
                       200 + 2 * i),
                 i + 1, k, side, orients)
       ELSE S

\* The window after k splits.
Build(k, side, orients) == Grow(Started, 1, k, side, orients)

BuiltWindows ==
    { Build(k, side, orients) :
        k \in 0..DeepSplits, side \in {"first", "last"},
        orients \in { <<HORIZONTAL>>, <<VERTICAL>>, <<HORIZONTAL, VERTICAL>> } }

RECURSIVE Chain(_, _, _)
\* A session tree of d "paned" nodes, each the first child of the one above.
Chain(d, orientation, end) ==
    IF d = 0 THEN end
    ELSE JPaned(orientation, <<100 + d>>, Chain(d - 1, orientation, end), JNull)

ChainFiles ==
    { DictFile(TRUE, <<Chain(d, orientation, end)>>) :
        d \in 1..ChainDepth, orientation \in {"horizontal", "vertical"},
        end \in {JNull, JTerminal} }

\* A running window with a deep tree, or a start with a deep document.
DeepInit ==
    /\ \/ /\ \E S \in BuiltWindows : Window(S)
          /\ sessionFile = NoFile
       \/ /\ InitWindow
          /\ sessionFile \in ChainFiles
    /\ config = DEFAULTS
    /\ _keymap = _build_keymap(config)
    /\ fileReads = 0

\* The user only closes the window and starts the program again.
DeepNext ==
    \/ Start
    \/ Activate
    \/ RunIdle
    \/ FocusIn
    \/ FocusOut
    \/ OnDelete

DeepSpec == DeepInit /\ [][DeepNext]_vars

(* ---------------------------- session file ---------------------------- *)

\* The process stops inside do_activate after json.load has read the
\* session file and before os.remove: the file stays on disk.
Killed ==
    /\ win = "init" /\ sessionFile.kind # "absent"
    /\ Apply([St EXCEPT !.win = "destroyed"])
    /\ fileReads' = IF fileReads < MaxReads THEN fileReads + 1 ELSE fileReads
    /\ UNCHANGED <<sessionFile, config, _keymap>>

\* "delete-event" with a write that fails after os.open has truncated the
\* file (OSError, swallowed): what is left of the file is no JSON document.
SaveTruncated ==
    /\ Ready
    /\ sessionFile' = GarbageFile
    /\ fileReads' = 0
    /\ \E R \in {_on_delete(St)} : Apply(R)
    /\ UNCHANGED <<config, _keymap>>

\* A first start without a session file.
SessionInit == Init /\ sessionFile = NoFile

\* Windows are worked on through the context menu, closed and started again.
SessionNext ==
    \/ Start
    \/ Activate
    \/ Killed
    \/ OnDelete
    \/ SaveTruncated
    \/ OnMenu
    \/ OnExit
    \/ RunIdle
    \/ FocusIn

SessionSpec == SessionInit /\ [][SessionNext]_vars

(* -------------------------- working directories ----------------------- *)

\* The directories a shell may be in.
Dirs == {HOME, "work"}

\* TerminalPane._on_spawn_done without error: the pid of the shell is known.
SpawnDone ==
    /\ win = "open"
    /\ \E t \in Terms(St) :
          /\ ~widgets[t]._child_pid
          /\ Apply([St EXCEPT !.widgets[t]._child_pid = TRUE])
    /\ UNCHANGED <<sessionFile, config, _keymap, fileReads>>

\* The shell of a terminal changes its working directory.
Chdir ==
    /\ win = "open"
    /\ \E t \in Terms(St), dir \in Dirs :
          /\ widgets[t]._child_pid /\ widgets[t].cwd # dir
          /\ Apply([St EXCEPT !.widgets[t].cwd = dir])
    /\ UNCHANGED <<sessionFile, config, _keymap, fileReads>>

\* Session files that name working directories.
CwdFiles ==
    { NoFile,
      DictFile(TRUE, <<[type |-> "terminal", cwd |-> "work"]>>),
      DictFile(TRUE, <<JPaned("vertical", <<200>>,
                              [type |-> "terminal", cwd |-> "work"],
                              JTerminal)>>) }

CwdInit == Init /\ sessionFile \in CwdFiles

\* Shells start and change directory while the window is worked on through
\* the context menu.
CwdNext ==
    \/ Activate
    \/ FocusIn
    \/ RunIdle
    \/ SpawnDone
    \/ Chdir
    \/ OnMenu

CwdSpec == CwdInit /\ [][CwdNext]_vars

(* ------------------------------ key bindings -------------------------- *)

\* Configurations of key bindings: the dict's items in order, each binding
\* string as its parts between "+" signs.
Configs ==
    { DEFAULTS,
      << <<"split_vertical", <<"Ctrl", "Shift", "D">> >> >>,
      << <<"split_vertical", <<"ctrl", " Shift ", " d">> >>,
         <<"next_pane", <<"Ctrl", "Tab">> >> >>,
      << <<"new_tab", <<"Ctrl", "D">> >>,
         <<"close_pane", <<"Ctrl", "Shift", "d">> >>,
         <<"split_horizontal", <<"Ctrl", "Shift", "D">> >>,
         <<"next_pane", <<"Alt", "D">> >> >>,
      << <<"split_vertical", <<"Ctrl", "Shift", "D">> >>,
         <<"close_pane", <<"Ctrl", "Shift", "d">> >> >>,
      << <<"frobnicate", <<"Ctrl", "Shift", "D">> >>,
         <<"copy", <<"Ctrl", "C">> >>,
         <<"paste", <<"Ctrl", "V">> >> >>,
      << <<"", <<"Ctrl", "C">> >>,
         <<"frobnicate", <<"Ctrl", "V">> >>,
         <<"split_vertical", <<"Ctrl", "Shift", "D">> >>,
         <<"copy", <<"Ctrl", "Shift", "C">> >> >>,
      << <<"paste", <<"Super", "V">> >>,
         <<"split_vertical", <<"Ctrl", "Shift", "D">> >> >>,
      << <<"split_vertical", <<"Ctrl", "Shift">> >>,
         <<"new_tab", <<"Ctrl", "Foo">> >>,
         <<"close_pane", <<"Super", "W">> >>,
         <<"next_pane", <<"">> >>,
         <<"next_tab", <<"Ctrl", "Shift", "page_down">> >>,
         <<"split_horizontal", <<"Ctrl", "Shift", "E">> >> >> }

\* Session files for a start under these configurations.
KeyFiles ==
    { NoFile, DictFile(TRUE, <<EmptyPaned>>),
      DictFile(TRUE, <<JPaned("vertical", <<400>>, JTerminal, JTerminal)>>) }

KeyInit ==
    /\ InitWindow
    /\ sessionFile \in KeyFiles
    /\ config \in Configs
    /\ _keymap = _build_keymap(config)
    /\ fileReads = 0

\* The user works with the keyboard only.
KeyNext ==
    \/ Activate
    \/ FocusIn
    \/ OnKey
    \/ RunIdle

KeySpec == KeyInit /\ [][KeyNext]_vars

\* Starts under the configurations of the user: every configuration but the
\* default one.
ModInit == KeyInit /\ config # DEFAULTS

ModSpec == ModInit /\ [][KeyNext]_vars

(* -------------------------------- tabs -------------------------------- *)

\* Sessions of three tabs, the second one with a Split or not.
TabFiles ==
    { DictFile(TRUE, <<JTerminal, JTerminal, JTerminal>>),
      DictFile(TRUE, <<JTerminal,
                       JPaned("horizontal", <<300>>, JTerminal, JTerminal),
                       JTerminal>>) }

TabInit ==
    /\ InitWindow
    /\ sessionFile \in TabFiles
    /\ config = DEFAULTS
    /\ _keymap = _build_keymap(config)
    /\ fileReads = 0

\* The next_tab and prev_tab keys, handed to _handle_action by _on_key.
SwitchTab ==
    /\ Ready /\ active
    /\ \E action \in {"next_tab", "prev_tab"} :
          \E r \in {_handle_action(St, action)} : Apply(r.S)
    /\ UNCHANGED <<sessionFile, config, _keymap, fileReads>>

\* The user switches between the restored tabs and closes tabs and panes.
TabNext ==
    \/ Activate
    \/ FocusIn
    \/ FocusOut
    \/ RunIdle
    \/ SwitchTab
    \/ OnClick
    \/ OnExit
    \/ OnTabLabelClick

TabSpec == TabInit /\ [][TabNext]_vars

(* ----------------------------- properties ----------------------------- *)

RECURSIVE Shape(_, _)
\* The tree below a widget: a Leaf with its terminal, a Split with its
\* orientation and its two children in order, "none" for an empty slot.
Shape(W, x) ==
    IF x = None THEN <<"none">>
    ELSE IF IsTerminalPane(x) THEN <<"Leaf", x>>
    ELSE IF IsPaned(x)
        THEN <<"Split", W[x].orientation,
               Shape(W, W[x].child1), Shape(W, W[x].child2)>>
    ELSE Shape(W, W[x].child1)

\* The trees of the tabs, in tab order.
Shapes(S) == [i \in DOMAIN S.pages |-> Shape(S.widgets, S.pages[i])]

\* A terminal that is inside some tab's tree.
Attached(S, t) == t # None /\ t \in Terms(S)

\* C1: from a window whose tabs were created by add_tab, in every state
\* reached through splits and closes (by key, by menu or by child-exit),
\* every Split has two non-null children and every tab's tree has a Leaf.
C1_SplitsFull ==
    /\ \A x \in Paneds(St) :
          widgets[x].child1 # None /\ widgets[x].child2 # None
    /\ \A i \in DOMAIN pages : _collect_terminals(widgets, pages[i]) # <<>>

\* Widget ids are given out smallest first: the second Paned is alive and the
\* first is not, so a close has removed a Split after two splits.
C1_Witness ==
    /\ win = "open"
    /\ Paneds(St) = {102}
    /\ Cardinality(Terms(St)) = 2

\* split_pane on the focused Leaf, then close_pane on the Leaf it created
\* (new_term, the terminal constructed from S).
SplitThenClose(S, o) == close_pane(split_pane(S, o), FreshTerm(S))

\* C2: split_pane on a Leaf L followed by close_pane on the new Leaf gives
\* back the same trees: same shape, orientations and child order, L in the
\* slot it had.
C2_SplitCloseRestores ==
    (win = "open" /\ Attached(St, focused_terminal)) =>
        \A o \in {HORIZONTAL, VERTICAL} :
            /\ Shapes(split_pane(St, o)) # Shapes(St)
            /\ Shapes(SplitThenClose(St, o)) = Shapes(St)

\* L is the second child of a Split that is itself the first child of a
\* Split, and the split of L has made a third level.
C2_Witness ==
    /\ win = "open" /\ Attached(St, focused_terminal)
    /\ IsPaned(get_parent(St, focused_terminal))
    /\ widgets[get_parent(St, focused_terminal)].child2 = focused_terminal
    /\ IsPaned(get_parent(St, get_parent(St, focused_terminal)))
    /\ Cardinality(Terms(split_pane(St, VERTICAL))) = Cardinality(Terms(St)) + 1
    /\ Shapes(SplitThenClose(St, VERTICAL)) = Shapes(St)

RECURSIVE Visited(_, _)
\* The leaves focused by n consecutive navigate_next from S, in order.
Visited(S, n) ==
    LET Step(S1) == <<S1.focused_terminal>> \o Visited(S1, n - 1)
    IN IF n = 0 THEN <<>> ELSE Step(navigate_next(S))

\* The window takes key events and the focused Leaf is in the selected tab.
Navigable ==
    /\ win = "open" /\ active
    /\ focused_terminal \in Range(CurrentLeaves(St))

\* C3: with N leaves in the tab, N consecutive navigate_next bring the focus
\* back to the Leaf it started from, and the N leaves focused on the way are
\* pairwise distinct.
C3_NavigateCycle ==
    Navigable =>
        LET N == Len(CurrentLeaves(St))
            Cycle(v) ==
                /\ v[N] = focused_terminal
                /\ \A i, j \in 1..N : i # j => v[i] # v[j]
                /\ Range(v) = Range(CurrentLeaves(St))
        IN Cycle(Visited(St, N))

\* Three leaves in the selected tab, the focus on the last of them.
C3_Witness ==
    /\ Navigable
    /\ Len(CurrentLeaves(St)) = 3
    /\ CurrentLeaves(St)[3] = focused_terminal
    /\ Visited(St, 3)[1] = CurrentLeaves(St)[1]

RECURSIVE Layout(_, _)
\* The tree below a widget without the identity of its leaves: at every
\* Split the orientation, the divider position and the children in order.
Layout(W, x) ==
    IF x = None THEN <<"none">>
    ELSE IF IsTerminalPane(x) THEN <<"Leaf">>
    ELSE IF IsPaned(x)
        THEN <<"Split", W[x].orientation, W[x].position,
               Layout(W, W[x].child1), Layout(W, W[x].child2)>>
    ELSE Layout(W, W[x].child1)

Max(a, b) == IF a >= b THEN a ELSE b
Min(a, b) == IF a <= b THEN a ELSE b

RECURSIVE Levels(_, _)
\* The number of levels of Splits below a widget (0 for a Leaf).
Levels(W, x) ==
    IF x = None \/ IsTerminalPane(x) THEN 0
    ELSE IF IsPaned(x)
        THEN 1 + Max(Levels(W, W[x].child1), Levels(W, W[x].child2))
    ELSE Levels(W, W[x].child1)

RECURSIVE Full(_, _)
\* A tree as splits build it: every Split has its two children.
Full(W, x) ==
    IF x = None THEN FALSE
    ELSE IF IsTerminalPane(x) THEN TRUE
    ELSE IF IsPaned(x)
        THEN Full(W, W[x].child1) /\ Full(W, W[x].child2)
    ELSE Full(W, W[x].child1)

\* The window that a start with the one-tab session document data leaves,
\* once the deferred divider assignments have run.
Restored(data) ==
    Drain(do_activate(TerminalWindow, DictFile(TRUE, <<data>>)), 1)

\* Tab i of S, serialized and restored, has the layout it had.
RoundTrips(S, i) ==
    LET Same(R) == /\ R.win = "open" /\ Len(R.pages) = 1
                   /\ Layout(R.widgets, R.pages[1])
                        = Layout(S.widgets, S.pages[i])
    IN Same(Restored(_serialize_tree(S.widgets, S.pages[i])))

\* C4 as stated: any tree built by splits comes back from
\* _restore_tree(_serialize_tree(t)) with the same shape, orientations,
\* divider positions and child order.
C4_RoundTrip ==
    \A i \in DOMAIN pages :
        (win = "open" /\ Full(widgets, pages[i])) => RoundTrips(St, i)

\* C4, amended: the round trip holds for the trees built by splits whose
\* leaves are at most MaxDepth levels of Splits below the root; _restore_tree
\* drops what lies deeper.
C4_RoundTripWithinCeiling ==
    \A i \in DOMAIN pages :
        (/\ win = "open" /\ Full(widgets, pages[i])
         /\ Levels(widgets, pages[i]) <= MaxDepth) => RoundTrips(St, i)

\* A tree of MaxDepth levels of Splits with its dividers set, restored from
\* the session saved at the last close (the focus is on its first Leaf, where
\* _on_switch_page puts it), which round trips again.
C4_Witness ==
    /\ win = "open" /\ idle = <<>> /\ Len(pages) = 1
    /\ Full(widgets, pages[1])
    /\ Levels(widgets, pages[1]) = MaxDepth
    /\ active /\ focused_terminal = CurrentLeaves(St)[1]
    /\ \A x \in Paneds(St) : widgets[x].position > 0
    /\ RoundTrips(St, 1)

RECURSIVE DocLevels(_)
\* The number of levels of "paned" nodes in a session tree.
DocLevels(data) ==
    IF data.type = "paned"
    THEN 1 + Max(DocLevels(data.child1), DocLevels(data.child2))
    ELSE 0

\* The program is about to start on a session document of one tab whose
\* tree has more than n levels of "paned" nodes.
StartsOnDeeperThan(n) ==
    /\ win = "init" /\ sessionFile.kind = "dict" /\ sessionFile.header_ok
    /\ Len(sessionFile.tabs) = 1
    /\ DocLevels(sessionFile.tabs[1]) > n

\* The start on sessionFile ends with one tab of n levels of Splits.
RebuildsLevels(n) ==
    LET Rebuilt(R) == /\ R.win = "open" /\ Len(R.pages) = 1
                      /\ Levels(R.widgets, R.pages[1]) = n
    IN Rebuilt(do_activate(St, sessionFile))

\* C5 as stated: restoring a chain of "paned" nodes nested deeper than the
\* ceiling (25 levels) completes without error and rebuilds exactly the
\* first 20 levels.
C5_First20Levels == StartsOnDeeperThan(MaxDepth) => RebuildsLevels(MaxDepth)

\* C5, amended: such a restore completes without error and rebuilds exactly
\* the first MaxDepth + 1 levels (depth 0 to MaxDepth); a document of fewer
\* levels is rebuilt whole.
C5_CeilingLevels ==
    /\ StartsOnDeeperThan(MaxDepth) => RebuildsLevels(MaxDepth + 1)
    /\ (StartsOnDeeperThan(0) /\ ~StartsOnDeeperThan(MaxDepth))
          => RebuildsLevels(DocLevels(sessionFile.tabs[1]))

\* The window restored from a chain nested 25 levels deep: Splits and no
\* Leaf, MaxDepth + 1 levels of them.
C5_Witness ==
    /\ win = "open" /\ Len(pages) = 1
    /\ Terms(St) = {}
    /\ Levels(widgets, pages[1]) = MaxDepth + 1
    /\ widgets[widgets[pages[1]].child1].position = 125

\* The program is about to start and restore_or_init will return (a JSON
\* value that is no object makes it raise).
StartsOn == win = "init" /\ sessionFile.kind # "nondict"

\* No tab of the session document can be restored.
NoTabRestored ==
    get_n_pages(RestoreSession(St, LoadSession(sessionFile))) = 0

\* C6: after restore_or_init returns, whatever the session document, the
\* window has at least one tab; when no tab of the document could be
\* restored it has exactly one tab, holding a single Leaf.
C6_NeverZeroTabs ==
    StartsOn =>
        LET Shown(R) ==
                /\ R.win = "open"
                /\ get_n_pages(R) >= 1
                /\ NoTabRestored =>
                      /\ get_n_pages(R) = 1
                      /\ Layout(R.widgets, R.pages[1]) = <<"Leaf">>
        IN Shown(do_activate(St, sessionFile))

\* A start on a document that has tabs, none of which can be restored.
C6_Witness ==
    /\ StartsOn /\ sessionFile.kind = "dict" /\ sessionFile.header_ok
    /\ Len(sessionFile.tabs) = 2
    /\ NoTabRestored
    /\ Shapes(do_activate(St, sessionFile)) = << <<"Leaf", 1>> >>

\* Every focus request has been delivered: the window has the toplevel focus
\* and no grab_focus is waiting in the idle queue.
FocusDelivered ==
    active /\ \A i \in DOMAIN idle : idle[i].fn # "grab_focus"

\* C7: while the window is open, some tab contains a Leaf and, once the
\* pending focus requests are delivered, focused_terminal is a Leaf of some
\* tab's tree.
C7_FocusedLeafExists ==
    win = "open" =>
        /\ Terms(St) # {}
        /\ FocusDelivered => Attached(St, focused_terminal)

\* The modifier bits _on_key looks at, and every modifier state of an event.
Tracked == {CONTROL_MASK, SHIFT_MASK, MOD1_MASK}
Masks == SUBSET {CONTROL_MASK, SHIFT_MASK, MOD1_MASK, SUPER_MASK, LOCK_MASK}

\* The window is open and takes key events.
TakesKeys == win = "open" /\ active

\* Item i of the configuration binds its action to "Ctrl+Shift+D" and no
\* later item is a binding of the letter d or D under Ctrl+Shift.
BindsCtrlShiftD(i) ==
    /\ config[i][2] = <<"Ctrl", "Shift", "D">>
    /\ \A j \in (i + 1)..Len(config) :
          ~(/\ _parse_binding(config[j][2])[1] \in {100, 68}
            /\ _parse_binding(config[j][2])[2] = {CONTROL_MASK, SHIFT_MASK})

\* C8: an action bound once to "Ctrl+Shift+D" is what a key event with
\* exactly Ctrl+Shift among the tracked modifiers resolves to, whether the
\* event reports the keyval d or the keyval D.
C8_BothCases ==
    \A i \in DOMAIN config :
        BindsCtrlShiftD(i) =>
            \A kv \in {100, 68}, state \in Masks :
                (state \cap Tracked = {CONTROL_MASK, SHIFT_MASK}) =>
                    /\ KeymapGet(_keymap, <<kv, state \cap Tracked>>)
                          = config[i][1]
                    /\ \A sel \in BOOLEAN :
                          _on_key(St, _keymap, KeyEvent(kv, state), sel)
                              = _handle_action(St, config[i][1])

\* Under the configuration whose one binding is split_vertical on
\* "Ctrl+Shift+D", the window started with one Leaf has two: the key was
\* pressed and resolved to the split.
C8_Witness ==
    /\ TakesKeys
    /\ Len(config) = 1 /\ BindsCtrlShiftD(1)
    /\ Cardinality(Terms(St)) = 2
    /\ _on_key(St, _keymap, KeyEvent(100, {CONTROL_MASK, SHIFT_MASK}), FALSE)
          = _on_key(St, _keymap, KeyEvent(68, {CONTROL_MASK, SHIFT_MASK}), FALSE)

\* A key event with Ctrl held and Shift not held that the Keymap does not
\* match.
UnmatchedCtrl(event) ==
    /\ CONTROL_MASK \in event.state /\ SHIFT_MASK \notin event.state
    /\ <<event.keyval, event.state \cap Tracked>> \notin DOMAIN _keymap

\* C9: an unmatched Ctrl+C with a selection in the focused pane copies the
\* selection and is consumed; without a selection nothing is done and the
\* event is left unconsumed.
C9_SmartCopy ==
    TakesKeys =>
        \A kv \in {KEY_c, KEY_C}, state \in Masks :
            UnmatchedCtrl(KeyEvent(kv, state)) =>
                /\ focused_terminal # None =>
                      _on_key(St, _keymap, KeyEvent(kv, state), TRUE)
                          = Handled(St, TRUE, "copy", focused_terminal)
                /\ _on_key(St, _keymap, KeyEvent(kv, state), FALSE)
                      = Handled(St, FALSE, "none", None)

\* A focused pane in a window of two panes, Ctrl+C not bound: with a
\* selection the key copies, without one it is not consumed.
C9_Witness ==
    /\ TakesKeys /\ Attached(St, focused_terminal)
    /\ Cardinality(Terms(St)) = 2
    /\ UnmatchedCtrl(KeyEvent(KEY_c, {CONTROL_MASK}))
    /\ _on_key(St, _keymap, KeyEvent(KEY_c, {CONTROL_MASK}), TRUE).effect
          = "copy"
    /\ ~_on_key(St, _keymap, KeyEvent(KEY_c, {CONTROL_MASK}), FALSE).ret

\* C10: in every state of an open window an unmatched Ctrl+V (Ctrl held,
\* Shift not held, key v or V) pastes into the focused pane and is consumed.
C10_AlwaysPastes ==
    TakesKeys =>
        \A kv \in {KEY_v, KEY_V}, state \in Masks, sel \in BOOLEAN :
            UnmatchedCtrl(KeyEvent(kv, state)) =>
                /\ _on_key(St, _keymap, KeyEvent(kv, state), sel).ret
                /\ _on_key(St, _keymap, KeyEvent(kv, state), sel).effect
                      = "paste"

\* C11: close_pane on the sole Leaf of the only tab closes the window: the
\* tab is not removed with the window left open and no tab is left with an
\* empty tree.
C11_SoleLeafCloses ==
    (win = "open" /\ Len(pages) = 1) =>
        \A t \in Terms(St) :
            (TermsFrom(St, 1) = <<t>>) =>
                /\ close_pane(St, t).win = "destroyed"
                /\ (focused_terminal = t) =>
                      close_pane(St, None).win = "destroyed"

\* The keyvals a key event may report: those of the named keys, and x.
Keyvals == {KeyNames[i][2] : i \in DOMAIN KeyNames} \cup {120}

\* The trigger _on_key looks up for an event.
Trigger(kv, state) == <<kv, state \cap Tracked>>

NoKeyToken(part) ==
    \/ lower(strip(part)) \in {"ctrl", "shift", "alt", "super"}
    \/ \A name \in {strip(part), lower(strip(part)), upper(strip(part)),
                    capitalize(strip(part))} :
          keyval_from_name(name) \in {0, KEY_VoidSymbol}

\* Item i of the configuration is a binding none of whose tokens is a key.
Unresolvable(i) == \A k \in DOMAIN config[i][2] : NoKeyToken(config[i][2][k])

\* The configuration without its item i.
Remaining(i) ==
    [j \in 1..(Len(config) - 1) |->
        IF j < i THEN config[j] ELSE config[j + 1]]

\* C13: a binding string with no token that resolves to a key parses to
\* none, and the Keymap built from the configuration is the Keymap built
\* from the remaining bindings: nothing is registered for its action.
C13_UnresolvableDropped ==
    \A i \in DOMAIN config :
        Unresolvable(i) =>
            /\ _parse_binding(config[i][2]) = <<None, {}>>
            /\ _keymap = _build_keymap(Remaining(i))
            /\ \A key \in DOMAIN _keymap :
                  _keymap[key] = config[i][1] =>
                      \E j \in DOMAIN config :
                          j # i /\ config[j][1] = config[i][1]

\* The window has started with a configuration that holds bindings of
\* modifiers only, of an empty token and of unknown key names next to
\* bindings that resolve, and works with the Keymap of the latter.
C13_Witness ==
    /\ TakesKeys
    /\ \E i, j, k \in DOMAIN config :
          /\ Unresolvable(i) /\ config[i][2] = <<"Ctrl", "Shift">>
          /\ Unresolvable(j) /\ config[j][2] = <<"">>
          /\ Unresolvable(k) /\ config[k][2] = <<"Ctrl", "Foo">>
    /\ DOMAIN _keymap # {}
    /\ Cardinality(Terms(St)) = 2

\* The terminals that have existed: the ids a terminal can have got.
PastTerms == 1..(MaxTerms + 2)

\* C14: split_pane with no pane focused or with the focused Leaf in no tree,
\* and close_pane on a Leaf that is in no tree (as target, as with a second
\* child-exit, or as the focused pane), leave the whole window as it is: tab
\* list, trees, focused leaf, window state, pending callbacks, no new Leaf.
C14_AbsentTargetNoOp ==
    win = "open" =>
        /\ ~Attached(St, focused_terminal) =>
              /\ \A o \in {HORIZONTAL, VERTICAL} : split_pane(St, o) = St
              /\ close_pane(St, None) = St
        /\ \A t \in PastTerms :
              ~Attached(St, t) => close_pane(St, t) = St /\ _on_exit(St, t) = St

\* The focused-leaf reference names a terminal that has been closed, in a
\* window of well-formed trees where another terminal is in the tree.
C14_Witness ==
    /\ win = "open" /\ C1_SplitsFull
    /\ focused_terminal # None /\ ~Attached(St, focused_terminal)
    /\ Terms(St) # {}
    /\ split_pane(St, HORIZONTAL) = St
    /\ close_pane(St, focused_terminal) = St

\* C15: a session file is read by at most one startup, whether it parses or
\* not and whether or not the process stops between the read and the delete.
C15_ReadOnce == fileReads <= 1

RECURSIVE SubstLeaf(_, _, _)
\* The tree shape with the Leaf of terminal leaf replaced by the tree new.
SubstLeaf(shape, leaf, new) ==
    IF shape = <<"Leaf", leaf>> THEN new
    ELSE IF shape[1] = "Split"
        THEN <<"Split", shape[2], SubstLeaf(shape[3], leaf, new),
               SubstLeaf(shape[4], leaf, new)>>
    ELSE shape

\* split_pane has replaced the focused Leaf L of S, in its slot, by a Split
\* of orientation o over L and a new Leaf, and has changed nothing else in
\* the trees of R; the new Leaf has the focus.
SplitInPlace(S, R, o) ==
    LET L == S.focused_terminal
        new_term == FreshTerm(S)
        paned == FreshPaned(S)
        up == S.widgets[L].parent
    IN /\ R.win = "open" /\ R.pages = S.pages /\ R.cur = S.cur
       /\ DOMAIN R.widgets = DOMAIN S.widgets \cup {paned, new_term}
       /\ Shapes(R) =
             [i \in DOMAIN S.pages |->
                 SubstLeaf(Shape(S.widgets, S.pages[i]), L,
                           <<"Split", o, <<"Leaf", L>>,
                             <<"Leaf", new_term>> >>)]
       /\ R.widgets[paned].parent = up
       /\ (S.widgets[up].child1 = L) = (R.widgets[up].child1 = paned)
       /\ \A x \in DOMAIN S.widgets \ {L, up} : R.widgets[x] = S.widgets[x]
       /\ R.widgets[L] = [S.widgets[L] EXCEPT !.parent = paned]
       /\ [R.widgets[up] EXCEPT !.child1 = None, !.child2 = None]
             = [S.widgets[up] EXCEPT !.child1 = None, !.child2 = None]
       /\ R.focused_terminal = new_term

\* C16 as stated: the new Leaf is spawned with the working directory of L.
C16_SplitInPlace ==
    (TakesKeys /\ Attached(St, focused_terminal)) =>
        \A o \in {HORIZONTAL, VERTICAL} :
            /\ SplitInPlace(St, split_pane(St, o), o)
            /\ split_pane(St, o).widgets[FreshTerm(St)].cwd
                  = widgets[focused_terminal].cwd

\* C16: split_pane with orientation o on the focused Leaf L, in a window
\* that has the keyboard focus, replaces L in its slot by a new Split of
\* orientation o whose first child is L and whose second child is a new
\* Leaf; nothing else changes in any tree and the new Leaf is focused.  The
\* new Leaf is spawned in the working directory of L when the pid of L's
\* shell is known, and in the home directory when it is not.
C16_SplitInPlaceCwdKnown ==
    (TakesKeys /\ Attached(St, focused_terminal)) =>
        \A o \in {HORIZONTAL, VERTICAL} :
            /\ SplitInPlace(St, split_pane(St, o), o)
            /\ split_pane(St, o).widgets[FreshTerm(St)].cwd
                  = IF widgets[focused_terminal]._child_pid
                    THEN widgets[focused_terminal].cwd ELSE HOME

\* A second child that was split, and whose new Leaf was spawned in the
\* directory its shell had changed to: the Split took the second slot.
C16_Witness ==
    /\ TakesKeys /\ Cardinality(Terms(St)) = 3
    /\ \E p \in Paneds(St), q \in Paneds(St) :
          /\ widgets[p].child2 = q
          /\ IsTerminalPane(widgets[p].child1)
          /\ IsTerminalPane(widgets[q].child1)
          /\ widgets[q].child2 = focused_terminal
          /\ widgets[widgets[p].child1].cwd = HOME
          /\ widgets[widgets[q].child1].cwd = "work"
          /\ widgets[focused_terminal].cwd = "work"
          /\ ~widgets[focused_terminal]._child_pid

\* The other child of the Paned that holds the terminal t, None without one.
Sibling(S, t) ==
    LET p == S.widgets[t].parent
    IN IF S.widgets[p].child1 = t THEN S.widgets[p].child2
       ELSE S.widgets[p].child1

\* The Leaves that have a Split as parent and a sibling in it.
InSplit(S) ==
    {t \in Terms(S) : IsPaned(S.widgets[t].parent) /\ Sibling(S, t) # None}

\* In R the sibling of t in S has taken the slot of t's parent Split, itself
\* unchanged, and nothing else is changed in the trees and the tab list.
Promoted(S, R, t) ==
    LET p == S.widgets[t].parent
        s == Sibling(S, t)
        gp == S.widgets[p].parent
    IN /\ R.win = "open" /\ R.pages = S.pages /\ R.cur = S.cur
       /\ DOMAIN R.widgets = DOMAIN S.widgets \ {t, p}
       /\ R.widgets[s] = [S.widgets[s] EXCEPT !.parent = gp]
       /\ R.widgets[gp] =
             [S.widgets[gp] EXCEPT !.child1 = IF @ = p THEN s ELSE @,
                                   !.child2 = IF @ = p THEN s ELSE @]
       /\ \A x \in DOMAIN R.widgets \ {s, gp} : R.widgets[x] = S.widgets[x]

RECURSIVE FirstLeaf(_, _)
\* The first Leaf of the tree below x in pre-order, None in a tree without
\* a Leaf.
FirstLeaf(W, x) ==
    IF x = None THEN None
    ELSE IF IsTerminalPane(x) THEN x
    ELSE IF IsPaned(x) /\ FirstLeaf(W, W[x].child1) = None
        THEN FirstLeaf(W, W[x].child2)
    ELSE FirstLeaf(W, W[x].child1)

RECURSIVE TabRoot(_, _)
\* The Box of the tab whose tree holds the widget x.
TabRoot(W, x) == IF IsBox(x) THEN x ELSE TabRoot(W, W[x].parent)

\* The terminal the window says is focused once it has the keyboard focus.
FocusedWhenActive(S) == IF S.active THEN S.focused_terminal
                        ELSE focus_in(S).focused_terminal

\* C18 as stated: after close_pane has closed the focused Leaf inside a
\* Split, the focused leaf is the first Leaf in pre-order of the resulting
\* tree of the tab.
C18_FocusFirstOfTab ==
    (win = "open" /\ focused_terminal \in InSplit(St)) =>
        /\ FirstLeaf(close_pane(St, None).widgets,
                     TabRoot(widgets, focused_terminal)) # None
           => FocusedWhenActive(close_pane(St, None))
                 = FirstLeaf(close_pane(St, None).widgets,
                             TabRoot(widgets, focused_terminal))

\* C18: after close_pane has closed the focused Leaf inside a Split, the
\* focus is on the first Leaf in pre-order of the closed Leaf's sibling
\* subtree (the focused-leaf reference names it as soon as the window has
\* the keyboard focus); with a sibling subtree that holds no Leaf the
\* focused-leaf reference is left as it was.
C18_FocusFirstOfSibling ==
    (win = "open" /\ focused_terminal \in InSplit(St)) =>
        IF FirstLeaf(widgets, Sibling(St, focused_terminal)) # None
        THEN /\ FocusedWhenActive(close_pane(St, None))
                   = FirstLeaf(widgets, Sibling(St, focused_terminal))
             /\ close_pane(St, None).gtkFocus
                   = FirstLeaf(widgets, Sibling(St, focused_terminal))
             /\ FocusedWhenActive(close_pane(St, focused_terminal))
                   = FirstLeaf(widgets, Sibling(St, focused_terminal))
        ELSE close_pane(St, None).focused_terminal = focused_terminal

\* The focused Leaf is the second child of a Split that is itself a second
\* child: closing it moves the focus to its sibling, which is not the first
\* Leaf of the tab.
C18_Witness ==
    /\ TakesKeys /\ focused_terminal \in InSplit(St)
    /\ Sibling(St, focused_terminal) = 2
    /\ CurrentLeaves(St) = <<1, 2, 3>>
    /\ close_pane(St, None).focused_terminal = 2
    /\ CurrentLeaves(close_pane(St, None)) = <<1, 2>>

\* Every Split of S has its two children and every tab of S holds a Leaf.
WellFormed(S) ==
    /\ \A x \in Paneds(S) :
          S.widgets[x].child1 # None /\ S.widgets[x].child2 # None
    /\ \A i \in DOMAIN S.pages :
          _collect_terminals(S.widgets, S.pages[i]) # <<>>

\* C19: the window that a startup restores from the session file has two
\* non-null children in every Split and a Leaf in every tab, whatever the
\* document.
C19_RestoredWellFormed ==
    win = "init" => WellFormed(do_activate(St, sessionFile))

\* The oldest pending callback sets a divider position (_set_half of a
\* split, or the set_position of a restored Split).
DividerCallbackNext ==
    /\ win = "open" /\ idle # <<>>
    /\ Head(idle).fn \in {"_set_half", "set_position"}

\* C20: running a deferred divider-position callback changes no tree
\* structure (leaves, parent and child slots, orientations), not the tab
\* list and not the focused leaf; the only divider position it may change
\* is that of its own Split, and with its Split removed from the window it
\* changes none.
C20_CallbackKeepsStructure ==
    DividerCallbackNext =>
        \A alloc \in Allocs :
            /\ run_idle(St, alloc).win = "open"
            /\ run_idle(St, alloc).pages = pages
            /\ run_idle(St, alloc).cur = cur
            /\ run_idle(St, alloc).focused_terminal = focused_terminal
            /\ Shapes(run_idle(St, alloc)) = Shapes(St)
            /\ DOMAIN run_idle(St, alloc).widgets = DOMAIN widgets
            /\ \A x \in DOMAIN widgets :
                  /\ [run_idle(St, alloc).widgets[x] EXCEPT !.position = 0]
                        = [widgets[x] EXCEPT !.position = 0]
                  /\ (x # Head(idle).widget) =>
                        run_idle(St, alloc).widgets[x].position
                            = widgets[x].position
            /\ (Head(idle).widget \notin DOMAIN widgets) =>
                  run_idle(St, alloc).widgets = widgets

\* The _set_half of Split 102 is pending and Split 102 has been removed by a
\* close; Split 101 is in the tree with its divider set, and the callback
\* leaves it alone.
C20_Witness ==
    /\ DividerCallbackNext
    /\ Head(idle) = [fn |-> "_set_half", widget |-> 102, position |-> 0]
    /\ Paneds(St) = {101} /\ widgets[101].position = 400
    /\ Cardinality(Terms(St)) = 2
    /\ run_idle(St, 800).widgets = widgets

\* A divider-position assignment is pending.
DividerPending ==
    /\ win = "open"
    /\ \E i \in DOMAIN idle : idle[i].fn \in {"_set_half", "set_position"}

\* C21 (as stated): while a deferred divider-position assignment is
\* pending, no step changes the structure of a tab's tree, so that the
\* assignment runs against the tree its triggering mutation left.
C21_NoInterveningMutation ==
    [][(DividerPending /\ win' = "open") => Shapes(St)' = Shapes(St)]_vars

\* s is an initial part of t.
IsPrefix(s, t) == Len(s) <= Len(t) /\ SubSeq(t, 1, Len(s)) = s

\* C21 (amended): other structural mutations may come between the
\* scheduling of a deferred assignment and its run; what holds is the
\* order: while the window is open a step only appends to the pending
\* callbacks, or runs the oldest one, so that the callbacks run in the
\* order scheduled, each against the tree current when it runs.
C21_InScheduledOrder ==
    [][(win = "open" /\ win' = "open") =>
          \/ IsPrefix(idle, idle')
          \/ idle # <<>> /\ idle' = Tail(idle)]_vars

\* Two splits have been made and neither _set_half has run: the first will
\* run against the tree the second split left.
C21_Witness ==
    /\ win = "open" /\ Len(idle) = 2
    /\ idle[1].fn = "_set_half" /\ idle[2].fn = "_set_half"
    /\ idle[1].widget # idle[2].widget
    /\ {idle[1].widget, idle[2].widget} \subseteq Paneds(St)
    /\ get_parent(St, idle[2].widget) = idle[1].widget

\* A keyval of a letter, and the keyval of its other case.
IsLetter(kv) == keyval_to_lower(kv) # keyval_to_upper(kv)
OtherCase(kv) ==
    IF kv = keyval_to_lower(kv) THEN keyval_to_upper(kv)
    ELSE keyval_to_lower(kv)

\* Item j of the configuration binds the key, or its other case, under the
\* key's modifier mask.
BindsEitherCase(j, key) ==
    /\ _parse_binding(config[j][2])[1] \in {key[1], OtherCase(key[1])}
    /\ _parse_binding(config[j][2])[2] = key[2]

\* C22: in the built Keymap the lower-case and the upper-case keyval of a
\* letter under the same modifier mask are both unbound, or both bound to
\* the action of the last item of the configuration that binds either form
\* under that mask.
C22_CasesAgree ==
    /\ \A key \in DOMAIN _keymap :
          IsLetter(key[1]) =>
              /\ <<OtherCase(key[1]), key[2]>> \in DOMAIN _keymap
              /\ _keymap[<<OtherCase(key[1]), key[2]>>] = _keymap[key]
    /\ DOMAIN _keymap \subseteq
          UNION { LET Forms(key) ==
                          IF key[1] = None THEN {}
                          ELSE {key, <<OtherCase(key[1]), key[2]>>}
                  IN Forms(_parse_binding(config[i][2])) :
                  i \in DOMAIN config }
    /\ \A i \in DOMAIN config :
          LET Last(key) ==
                  /\ key \in DOMAIN _keymap
                  /\ <<OtherCase(key[1]), key[2]>> \in DOMAIN _keymap
                  /\ _keymap[key] = config[i][1]
                  /\ _keymap[<<OtherCase(key[1]), key[2]>>] = config[i][1]
              Letter(key) ==
                  (/\ key[1] # None
                   /\ IsLetter(key[1])
                   /\ \A j \in (i + 1)..Len(config) :
                         ~BindsEitherCase(j, key)) => Last(key)
          IN Letter(_parse_binding(config[i][2]))

\* The configuration binds close_pane to "Ctrl+Shift+d" and after it
\* split_horizontal to "Ctrl+Shift+D"; the window works with a Keymap that
\* has both keyvals on split_horizontal, and the key has split the pane.
C22_Witness ==
    /\ TakesKeys
    /\ \E i, j \in DOMAIN config :
          /\ i < j
          /\ config[i] = <<"close_pane", <<"Ctrl", "Shift", "d">> >>
          /\ config[j] = <<"split_horizontal", <<"Ctrl", "Shift", "D">> >>
          /\ \A k \in DOMAIN config :
                BindsEitherCase(k, <<100, {CONTROL_MASK, SHIFT_MASK}>>)
                    <=> k \in {i, j}
    /\ _keymap[<<100, {CONTROL_MASK, SHIFT_MASK}>>] = "split_horizontal"
    /\ _keymap[<<68, {CONTROL_MASK, SHIFT_MASK}>>] = "split_horizontal"
    /\ Cardinality(Terms(St)) = 2
    /\ \E p \in Paneds(St) : widgets[p].orientation = VERTICAL

\* The Keymap without one of its entries.
Without(km, key) == [k \in DOMAIN km \ {key} |-> km[k]]

\* C23: what a key event resolves to, and whether it is consumed, depends on
\* its keyval and its ctrl, shift and alt bits only: the event without its
\* other modifier bits has the same outcome; and an entry of the Keymap has
\* a part in the outcome only of events whose ctrl/shift/alt mask is the
\* entry's mask exactly: for any other event of its key the outcome is that
\* under the Keymap without the entry.
C23_TrackedBitsOnly ==
    TakesKeys =>
        /\ \A kv \in Keyvals, state \in Masks, sel \in BOOLEAN :
              _on_key(St, _keymap, KeyEvent(kv, state), sel)
                  = _on_key(St, _keymap, KeyEvent(kv, state \cap Tracked), sel)
        /\ \A key \in DOMAIN _keymap, state \in Masks, sel \in BOOLEAN :
              (state \cap Tracked # key[2]) =>
                  _on_key(St, _keymap, KeyEvent(key[1], state), sel)
                      = _on_key(St, Without(_keymap, key),
                                KeyEvent(key[1], state), sel)

\* The configuration binds close_pane to "Super+W" and split_horizontal to
\* "Ctrl+Shift+E": W with Super held, and W alone, are not consumed, while E
\* with Ctrl+Shift and Super and Lock held besides is, and has split the
\* pane.
C23_Witness ==
    /\ TakesKeys
    /\ <<87, {SUPER_MASK}>> \in DOMAIN _keymap
    /\ _keymap[<<87, {SUPER_MASK}>>] = "close_pane"
    /\ ~_on_key(St, _keymap, KeyEvent(87, {SUPER_MASK}), FALSE).ret
    /\ ~_on_key(St, _keymap, KeyEvent(87, {}), FALSE).ret
    /\ _on_key(St, _keymap,
               KeyEvent(69, {CONTROL_MASK, SHIFT_MASK, SUPER_MASK, LOCK_MASK}),
               FALSE).ret
    /\ Cardinality(Terms(St)) = 2
    /\ \E p \in Paneds(St) : widgets[p].orientation = VERTICAL

\* The terminals that are the only Leaf of their tab, in a window of more
\* than one tab.
SoleLeaves(S) ==
    {t \in Terms(S) :
        /\ Len(S.pages) > 1
        /\ _collect_terminals(S.widgets, TabRoot(S.widgets, t)) = <<t>>}

\* The pages of S without the page box, in their order.
PagesWithout(S, box) ==
    LET Drop(i) == [j \in 1..(Len(S.pages) - 1) |->
                       IF j < i THEN S.pages[j] ELSE S.pages[j + 1]]
    IN Drop(page_num(S, box) + 1)

\* R is S with the tab of the Leaf t removed: the other tabs in their
\* order with their trees, the window open, and the focus on the first Leaf
\* of the selected tab.
TabClosed(S, R, t) ==
    /\ R.win = "open" /\ ~R._closing
    /\ R.pages = PagesWithout(S, TabRoot(S.widgets, t))
    /\ \A i \in DOMAIN R.pages :
          Shape(R.widgets, R.pages[i]) = Shape(S.widgets, R.pages[i])
    /\ R.cur \in 0..(Len(R.pages) - 1)
    /\ FirstLeaf(R.widgets, _current_tab_root(R)) # None
    /\ R.gtkFocus = FirstLeaf(R.widgets, _current_tab_root(R))
    /\ FocusedWhenActive(R) = FirstLeaf(R.widgets, _current_tab_root(R))

\* C24: close_pane on the only Leaf of a tab, in a window of more than one
\* tab, removes that tab, selected or not, and nothing else: the other tabs
\* keep their order and their trees, the window stays open, and the focus
\* is on the first Leaf of the tab selected afterwards.
C24_SoleLeafClosesTab ==
    win = "open" =>
        \A t \in SoleLeaves(St) : TabClosed(St, close_pane(St, t), t)

\* C25: every step that closes the window leaves the serialization of the
\* Tab Set it closed in the session file.  A write that fails on the
\* window-manager close request (OSError, the file left as it was) is not
\* held against the claim.
C25_SavedAtShutdown ==
    [][(win = "open" /\ win' = "destroyed") =>
          \/ sessionFile' = save_session(St)
          \/ ~_closing' /\ sessionFile' = sessionFile]_vars

\* The sequence seq with new put in after each place of x.
RECURSIVE InsertAfter(_, _, _)
InsertAfter(seq, x, new) ==
    IF seq = <<>> THEN <<>>
    ELSE (IF Head(seq) = x THEN <<x, new>> ELSE <<Head(seq)>>)
             \o InsertAfter(Tail(seq), x, new)

\* The sequence seq without x.
RECURSIVE Removed(_, _)
Removed(seq, x) ==
    IF seq = <<>> THEN <<>>
    ELSE (IF Head(seq) = x THEN <<>> ELSE <<Head(seq)>>)
             \o Removed(Tail(seq), x)

\* The pre-order leaf sequences of the tabs, in tab order.
LeafSequences(S) ==
    [i \in DOMAIN S.pages |-> _collect_terminals(S.widgets, S.pages[i])]

\* C26: split_pane puts the new Leaf right after the split Leaf in the
\* pre-order leaf sequence of its tab, and close_pane of a Leaf that is a
\* child of a Split takes that Leaf out of the sequence of its tab; the
\* other leaves, and the sequences of the other tabs, are as they were.
C26_LeafOrderStable ==
    win = "open" =>
        /\ Attached(St, focused_terminal) =>
              \A o \in {HORIZONTAL, VERTICAL} :
                  /\ FreshTerm(St) \notin Terms(St)
                  /\ LeafSequences(split_pane(St, o))
                        = [i \in DOMAIN pages |->
                              InsertAfter(LeafSequences(St)[i],
                                          focused_terminal, FreshTerm(St))]
        /\ \A t \in Terms(St) :
              IsPaned(get_parent(St, t)) =>
                  LeafSequences(close_pane(St, t))
                      = [i \in DOMAIN pages |->
                            Removed(LeafSequences(St)[i], t)]

\* The focused Leaf is the second of three in its tab: a split puts the new
\* Leaf between it and the third, a close leaves the first and the third.
C26_Witness ==
    /\ TakesKeys /\ Len(CurrentLeaves(St)) = 3
    /\ focused_terminal = CurrentLeaves(St)[2]
    /\ CurrentLeaves(split_pane(St, HORIZONTAL))
          = <<CurrentLeaves(St)[1], focused_terminal, FreshTerm(St),
              CurrentLeaves(St)[3]>>
    /\ CurrentLeaves(close_pane(St, None))
          = <<CurrentLeaves(St)[1], CurrentLeaves(St)[3]>>

\* C27: with the window focused and no focus request waiting, the Leaf that
\* focused_terminal names, if it names a Leaf of a tree, is a Leaf of the
\* tree of the selected tab.
C27_FocusInSelectedTab ==
    (win = "open" /\ FocusDelivered /\ Attached(St, focused_terminal)) =>
        focused_terminal \in Range(CurrentLeaves(St))

\* In R the focus is on the Leaf f: f is the window's focus widget, and
\* focused_terminal names it as soon as the window has the keyboard focus.
FocusOn(R, f) ==
    /\ f # None
    /\ R.gtkFocus = f
    /\ FocusedWhenActive(R) = f
    /\ R.active => R.focused_terminal = f

\* C28: close_pane on a Leaf that has a sibling in a Split, whether the
\* focused Leaf or another one (as on child-exit), in the selected tab or in
\* another one, puts the focus on the first Leaf in pre-order of the closed
\* Leaf's sibling subtree.
C28_FocusToSibling ==
    win = "open" =>
        \A t \in InSplit(St) :
            /\ FocusOn(close_pane(St, t), FirstLeaf(widgets, Sibling(St, t)))
            /\ FocusOn(_on_exit(St, t), FirstLeaf(widgets, Sibling(St, t)))

\* The window at the moment close_pane or _on_tab_label_click has set
\* _closing and Gtk.Window.destroy is tearing its panes down.
Closing(S) == [S EXCEPT !._closing = TRUE]

\* close_pane, on the focused pane, on a pane as target or from child-exit,
\* leaves the state S as it is.
ClosesNothing(S) ==
    /\ close_pane(S, None) = S
    /\ \A t \in PastTerms : close_pane(S, t) = S /\ _on_exit(S, t) = S

\* C29: from the moment _closing is set, while the panes of the last tab are
\* torn down and after the window is destroyed, every close_pane call
\* returns with the tab list, the trees and the focused leaf as they were;
\* and _closing stays set as long as the process lives.
C29_ClosingIsFinal ==
    /\ [](/\ (win = "open" /\ get_n_pages(St) <= 1) =>
                ClosesNothing(Closing(St))
          /\ _closing => win = "destroyed" /\ ClosesNothing(St))
    /\ [][(_closing /\ win' # "init") => _closing']_vars

\* The window has been closed by the close of its last pane, and the
\* focused-leaf reference still names a pane: a close of it changes nothing.
C29_Witness ==
    /\ _closing /\ win = "destroyed"
    /\ focused_terminal \in PastTerms
    /\ close_pane(St, focused_terminal) = St

RECURSIVE Selected(_, _)
\* The tabs selected by k consecutive next_tab actions from S, in order.
Selected(S, k) ==
    LET Step(S1) == <<S1.cur>> \o Selected(S1, k - 1)
    IN IF k = 0 THEN <<>> ELSE Step(_switch_tab(S, 1))

\* C30: _switch_tab selects tab (current + direction) mod n.  With more than
\* one tab, next_tab then prev_tab (and prev_tab then next_tab) select the
\* tab selected before, and n next_tab actions select every tab once and
\* end on the tab they started from; with one tab or none _switch_tab does
\* nothing; it changes neither the tab order nor any tab's tree.
C30_SwitchTabCycles ==
    win = "open" =>
        /\ get_n_pages(St) <= 1 =>
              _switch_tab(St, 1) = St /\ _switch_tab(St, -1) = St
        /\ get_n_pages(St) > 1 =>
              /\ cur \in 0..(get_n_pages(St) - 1)
              /\ \A d \in {1, -1} :
                    /\ _switch_tab(St, d).cur = (cur + d) % get_n_pages(St)
                    /\ _switch_tab(_switch_tab(St, d), -d).cur = cur
              /\ Selected(St, get_n_pages(St))[get_n_pages(St)] = cur
              /\ Range(Selected(St, get_n_pages(St)))
                    = 0..(get_n_pages(St) - 1)
        /\ \A d \in {1, -1} :
              /\ _switch_tab(St, d).pages = pages
              /\ _switch_tab(St, d).widgets = widgets
              /\ _switch_tab(St, d).win = "open"

\* Three tabs with the first one selected: a state that only a tab switch
\* has led to, since a new tab is selected when it is added.  prev_tab wraps
\* to the last tab and three next_tab actions come back to the first.
C30_Witness ==
    /\ TakesKeys /\ Len(pages) = 3 /\ cur = 0
    /\ _switch_tab(St, -1).cur = 2
    /\ Selected(St, 3) = <<1, 2, 0>>

\* The items of the configuration whose binding string names the Super
\* modifier and a key.
SuperBindings ==
    {i \in DOMAIN config :
        /\ \E k \in DOMAIN config[i][2] :
              lower(strip(config[i][2][k])) = "super"
        /\ _parse_binding(config[i][2])[1] # None}

\* C31: a binding that names the Super modifier and a key is in the Keymap
\* under a mask that holds the Super bit (with the action of the last such
\* binding of the key); no key event, whatever its modifier state, is looked
\* up under that entry, so the outcome of every key event is what it is
\* without the entry, and an action that has such bindings only is what no
\* key event resolves to.
C31_SuperUnreachable ==
    \A i \in SuperBindings :
        LET Last(key) ==
                \A j \in (i + 1)..Len(config) :
                    _parse_binding(config[j][2]) # key
            Entry(key) ==
                /\ SUPER_MASK \in key[2]
                /\ key \in DOMAIN _keymap
                /\ Last(key) => _keymap[key] = config[i][1]
                /\ \A kv \in Keyvals, state \in Masks :
                      /\ Trigger(kv, state) # key
                      /\ (\A k \in DOMAIN _keymap :
                             _keymap[k] = config[i][1] => SUPER_MASK \in k[2])
                            => KeymapGet(_keymap, Trigger(kv, state))
                                  # config[i][1]
                /\ TakesKeys =>
                      \A state \in Masks, sel \in BOOLEAN :
                          _on_key(St, _keymap, KeyEvent(key[1], state), sel)
                              = _on_key(St, Without(_keymap, key),
                                        KeyEvent(key[1], state), sel)
        IN Entry(_parse_binding(config[i][2]))

\* close_pane is bound to "Super+W" only.  The focused pane is one of two in
\* a Split, so that close_pane would close it, and W with Super held, with
\* or without Ctrl and Shift, in either case of the letter, is not consumed
\* and changes nothing.
C31_Witness ==
    /\ TakesKeys /\ focused_terminal \in InSplit(St)
    /\ SuperBindings # {}
    /\ \A i \in SuperBindings : config[i][1] = "close_pane"
    /\ {<<87, {SUPER_MASK}>>, <<119, {SUPER_MASK}>>} \subseteq DOMAIN _keymap
    /\ close_pane(St, None) # St
    /\ \A kv \in {87, 119},
          state \in {{SUPER_MASK}, {SUPER_MASK, CONTROL_MASK, SHIFT_MASK}} :
          _on_key(St, _keymap, KeyEvent(kv, state), FALSE)
              = Handled(St, FALSE, "none", None)

====
